---- MODULE Spec2Model ----
(***************************************************************************)
(* Model of the IMAP response parser of pygmail (pygmail/utilities.py):    *)
(* the look-ahead cursor, the value classes, the token readers, the        *)
(* dispatcher, the parse entry point and the interpretation helpers.       *)
(*                                                                         *)
(* A Python str is a sequence of one-character strings.  Every Python      *)
(* value is a record with a type tag t.  A call of a reader returns a      *)
(* record [exc, msg, val, index]: the exception it raised ("none" when it  *)
(* returned), the message, the returned value and the cursor index it      *)
(* left behind.                                                            *)
(***************************************************************************)
EXTENDS Integers, Sequences, FiniteSets, TLC

VARIABLES
    string,   \* the input handed to parse (LookAheadStringIter.string)
    index,    \* the cursor index when the call ended (LookAheadStringIter.index)
    result,   \* outcome of the last call: [exc, msg, val]
    pc,       \* "input" while the caller holds the input, then the name of the call made
    value,    \* the value the caller encoded into string / the helper's argument
    other     \* second operand of a comparison

vars == <<string, index, result, pc, value, other>>

(***************************************************************************)
(* Characters                                                              *)
(***************************************************************************)
\* the printable ASCII characters in code order, without the grave accent (96)
Printable ==
    << " ", "!", "\"", "#", "$", "%", "&", "'", "(", ")", "*", "+", ",", "-",
       ".", "/", "0", "1", "2", "3", "4", "5", "6", "7", "8", "9", ":", ";",
       "<", "=", ">", "?", "@", "A", "B", "C", "D", "E", "F", "G", "H", "I",
       "J", "K", "L", "M", "N", "O", "P", "Q", "R", "S", "T", "U", "V", "W",
       "X", "Y", "Z", "[", "\\", "]", "^", "_", "a", "b", "c", "d", "e",
       "f", "g", "h", "i", "j", "k", "l", "m", "n", "o", "p", "q", "r", "s",
       "t", "u", "v", "w", "x", "y", "z", "{", "|", "}", "~" >>

Control == {"\t", "\n", "\r"}

Chars == Control \cup {Printable[k] : k \in 1..Len(Printable)}

\* ord() of a character of Chars
Ord(c) ==
    IF c = "\t" THEN 9
    ELSE IF c = "\n" THEN 10
    ELSE IF c = "\r" THEN 13
    ELSE LET k == CHOOSE j \in 1..Len(Printable) : Printable[j] = c
         IN  IF k <= 64 THEN 31 + k ELSE 32 + k

\* the characters of the raw string that ATOM_CHARS excludes
AtomSpecials == {"(", ")", "{", "%", "*", "\"", "\\", " ", "]"}

ATOM_CHARS == {c \in Chars : Ord(c) \in 32..255 /\ c \notin AtomSpecials}

\* the value of an absent character (data.ahead at the end of the input)
NoChar == "None"

(***************************************************************************)
(* Python built-ins the parser relies on                                   *)
(***************************************************************************)
Min(a, b) == IF a < b THEN a ELSE b
Max(a, b) == IF a > b THEN a ELSE b

\* s[a:b] with Python's treatment of negative and out-of-range bounds
PySlice(s, a, b) ==
    LET n  == Len(s)
        lo == IF a < 0 THEN Max(a + n, 0) ELSE Min(a, n)
        hi == IF b < 0 THEN Max(b + n, 0) ELSE Min(b, n)
    IN  IF lo < hi THEN SubSeq(s, lo + 1, hi) ELSE <<>>

\* s[i]: [ok, c]; ok is FALSE for an IndexError
PyIndex(s, i) ==
    LET n == Len(s)
        j == IF i < 0 THEN i + n ELSE i
    IN  IF j >= 0 /\ j < n THEN [ok |-> TRUE, c |-> s[j + 1]]
        ELSE [ok |-> FALSE, c |-> NoChar]

Whitespace == {" ", "\t", "\n", "\r"}
Digits == {"0", "1", "2", "3", "4", "5", "6", "7", "8", "9"}

RECURSIVE LStrip(_)
LStrip(s) == IF s # <<>> /\ Head(s) \in Whitespace THEN LStrip(Tail(s)) ELSE s

RECURSIVE RStrip(_)
RStrip(s) ==
    IF s # <<>> /\ s[Len(s)] \in Whitespace THEN RStrip(SubSeq(s, 1, Len(s) - 1))
    ELSE s

RECURSIVE DigitsValue(_, _)
DigitsValue(s, acc) ==
    IF s = <<>> THEN acc
    ELSE DigitsValue(Tail(s), 10 * acc + (Ord(Head(s)) - 48))

\* int(s) for a str s: [ok, n]; ok is FALSE for a ValueError
PyInt(s) ==
    LET t    == RStrip(LStrip(s))
        sign == IF t # <<>> /\ Head(t) \in {"+", "-"} THEN Head(t) ELSE ""
        d    == IF sign = "" THEN t ELSE Tail(t)
    IN  IF d # <<>> /\ \A k \in 1..Len(d) : d[k] \in Digits
        THEN [ok |-> TRUE,
              n  |-> IF sign = "-" THEN 0 - DigitsValue(d, 0) ELSE DigitsValue(d, 0)]
        ELSE [ok |-> FALSE, n |-> 0]

(***************************************************************************)
(* Values                                                                  *)
(***************************************************************************)
None == [t |-> "NoneType"]
Str(text) == [t |-> "str", v |-> text]
IntVal(n) == [t |-> "int", v |-> n]
List(items) == [t |-> "list", items |-> items]
Atom(text) == [t |-> "Atom", value |-> text]
Flag(text) == [t |-> "Flag", value |-> text]
AttributeSpec(primary, msgtext, header_list, range) ==
    [t |-> "AttributeSpec", primary |-> primary, msgtext |-> msgtext,
     header_list |-> header_list, range |-> range]

\* isinstance(v, cls): Flag is declared as a subclass of Atom
isinstance(v, cls) ==
    \/ v.t = cls
    \/ cls = "Atom" /\ v.t = "Flag"

\* v.value raises AttributeError for every object without that attribute
hasattr_value(v) == v.t \in {"Atom", "Flag"}

(***************************************************************************)
(* Outcomes of calls                                                       *)
(***************************************************************************)
Ok(val, i) == [exc |-> "none", msg |-> "", val |-> val, index |-> i]
Raise(exc, msg, i) == [exc |-> exc, msg |-> msg, val |-> None, index |-> i]
ParseError(msg, i) == Raise("ParseError", msg, i)

(***************************************************************************)
(* LookAheadStringIter                                                     *)
(***************************************************************************)
ahead(s, i) == PyIndex(s, i).c

\* next() that moves the index on at the end of the input too
next_always_advances(s, i) ==
    LET r == PyIndex(s, i)
    IN  IF r.ok THEN [stop |-> FALSE, c |-> r.c, index |-> i + 1]
        ELSE [stop |-> TRUE, c |-> NoChar, index |-> i + 1]

\* next(): [stop, c, index]; stop is TRUE for StopIteration
next(s, i) ==
    LET r == PyIndex(s, i)
    IN  IF r.ok THEN [stop |-> FALSE, c |-> r.c, index |-> i + 1]
        ELSE [stop |-> TRUE, c |-> NoChar, index |-> i]

\* read(count) that drops the white space at the end of what it read
read_stripped(s, i, count) ==
    [result |-> RStrip(PySlice(s, i, i + count)), index |-> i + count]

\* read(count): [result, index]
read(s, i, count) == [result |-> PySlice(s, i, i + count), index |-> i + count]

\* The attribute index of a cursor.  The class sets index = 0 and
\* __init__ does not: a cursor reads the class attribute until its first
\* assignment to self.index gives it an attribute of its own.  cls is the
\* class attribute, own the cursor's attribute or None.
self_index(cls, own) == IF own = None THEN cls.v ELSE own.v

\* an assignment to the index that lands on the class, for all cursors
set_index_on_class(cls, own, i) == [cls |-> IntVal(i), own |-> own]

\* self.index = i: [cls, own]
set_index(cls, own, i) == [cls |-> cls, own |-> IntVal(i)]

\* read() with count omitted: [result, index]
read_all(s, i) == [result |-> PySlice(s, i, Len(s)), index |-> Len(s)]

\* `assert data.next() == c` at the head of a reader
expect(s, i, c) ==
    LET n == next(s, i)
    IN  IF n.stop THEN Raise("StopIteration", "", n.index)
        ELSE IF n.c # c THEN Raise("AssertionError", "", n.index)
        ELSE Ok(None, n.index)

(***************************************************************************)
(* Token readers and dispatcher                                            *)
(*                                                                         *)
(* The outcome of each call a reader makes is handed on to an operator     *)
(* that holds the statements after that call.                              *)
(***************************************************************************)
RECURSIVE read_atom(_, _), read_list(_, _), parse_recursive_loop(_, _, _)

\* read_quoted's loop that keeps the backslash of an escape
RECURSIVE read_quoted_loop(_, _, _)
read_quoted_loop_raw(s, i, acc) ==
    LET n == next(s, i)
    IN  IF n.stop THEN [closed |-> FALSE, result |-> acc, index |-> n.index]
        ELSE IF n.c = "\"" THEN [closed |-> TRUE, result |-> acc, index |-> n.index]
        ELSE IF n.c = "\\" /\ ahead(s, n.index) \in {"\"", "\\"}
             THEN read_quoted_loop(s, n.index + 1, acc \o <<n.c, ahead(s, n.index)>>)
        ELSE read_quoted_loop(s, n.index, acc \o <<n.c>>)

\* the `for c in data` loop of read_quoted: [closed, result, index]
read_quoted_loop(s, i, acc) ==
    LET n == next(s, i)
    IN  IF n.stop THEN [closed |-> FALSE, result |-> acc, index |-> n.index]
        ELSE IF n.c = "\"" THEN [closed |-> TRUE, result |-> acc, index |-> n.index]
        ELSE IF n.c = "\\" /\ ahead(s, n.index) \in {"\"", "\\"}
             THEN read_quoted_loop(s, next(s, n.index).index,
                                   acc \o <<next(s, n.index).c>>)
        ELSE read_quoted_loop(s, n.index, acc \o <<n.c>>)

\* the end of read_quoted that takes the end of the input for the closing
\* quote
read_quoted_end_lenient(l) == Ok(Str(l.result), l.index)

\* the end of read_quoted: the loop's else clause, or the return
read_quoted_end(l) ==
    IF l.closed THEN Ok(Str(l.result), l.index)
    ELSE ParseError("Unexpected end of quoted string", l.index)

\* read_quoted that leaves the closing double quote to its caller
read_quoted_quote_unread(s, i) ==
    LET a == expect(s, i, "\"")
        l == read_quoted_loop(s, a.index, <<>>)
    IN  IF a.exc # "none" THEN a
        ELSE read_quoted_end([l EXCEPT !.index = IF l.closed THEN l.index - 1
                                                 ELSE l.index])

read_quoted(s, i) ==
    LET a == expect(s, i, "\"")
    IN  IF a.exc # "none" THEN a
        ELSE read_quoted_end(read_quoted_loop(s, a.index, <<>>))

\* the `for c in data` loop of read_literal: [count, index]
RECURSIVE read_literal_count(_, _, _)
read_literal_count(s, i, acc) ==
    LET n == next(s, i)
    IN  IF n.stop \/ n.c = "}" THEN [count |-> acc, index |-> n.index]
        ELSE read_literal_count(s, n.index, acc \o <<n.c>>)

\* the check after the closing brace that is content with a bare line feed
read_literal_crlf_or_lf(s, i) ==
    IF ahead(s, i) = "\n" THEN [ok |-> TRUE, index |-> i + 1]
    ELSE IF ahead(s, i) = NoChar THEN [ok |-> FALSE, index |-> i]
    ELSE IF next(s, i).c # "\r" THEN [ok |-> FALSE, index |-> i + 1]
    ELSE IF ahead(s, i + 1) = NoChar THEN [ok |-> FALSE, index |-> i + 1]
    ELSE IF next(s, i + 1).c # "\n" THEN [ok |-> FALSE, index |-> i + 2]
    ELSE [ok |-> TRUE, index |-> i + 2]

\* data.ahead and data.next() == '\r' and data.ahead and data.next() == '\n'
read_literal_crlf(s, i) ==
    IF ahead(s, i) = NoChar THEN [ok |-> FALSE, index |-> i]
    ELSE IF next(s, i).c # "\r" THEN [ok |-> FALSE, index |-> i + 1]
    ELSE IF ahead(s, i + 1) = NoChar THEN [ok |-> FALSE, index |-> i + 1]
    ELSE IF next(s, i + 1).c # "\n" THEN [ok |-> FALSE, index |-> i + 2]
    ELSE [ok |-> TRUE, index |-> i + 2]

\* the end of read_literal that returns whatever read(count) could read
read_literal_content_short(s, h) ==
    LET crlf == read_literal_crlf(s, h.index)
        n    == PyInt(h.count)
        r    == read(s, crlf.index, n.n)
    IN  IF ~crlf.ok THEN ParseError("Syntax error in literal string", crlf.index)
        ELSE IF ~n.ok
             THEN ParseError("Non-integer token for length of literal string",
                             crlf.index)
        ELSE Ok(Str(r.result), r.index)

\* the statements of read_literal after the loop that reads the count
read_literal_content(s, h) ==
    LET crlf == read_literal_crlf(s, h.index)
        n    == PyInt(h.count)
        r    == read(s, crlf.index, n.n)
    IN  IF ~crlf.ok THEN ParseError("Syntax error in literal string", crlf.index)
        ELSE IF ~n.ok
             THEN ParseError("Non-integer token for length of literal string",
                             crlf.index)
        ELSE IF Len(r.result) < n.n
             THEN ParseError("Unexpected end of literal string", r.index)
        ELSE Ok(Str(r.result), r.index)

read_literal(s, i) ==
    LET a == expect(s, i, "{")
    IN  IF a.exc # "none" THEN a
        ELSE read_literal_content(s, read_literal_count(s, a.index, <<>>))

\* the end of read_list without its two checks
read_list_close(r) ==
    IF r.exc # "none" THEN r ELSE Ok(List(r.val), r.index + 1)

\* the end of read_list that leaves the closing parenthesis unread
read_list_end_unread(s, r) ==
    IF r.exc # "none" THEN r
    ELSE IF ahead(s, r.index) = NoChar
         THEN ParseError("Unexpected end of list", r.index)
    ELSE Ok(List(r.val), r.index)

\* the statements of read_list after list(parse_recursive(data))
read_list_end(s, r) ==
    IF r.exc # "none" THEN r
    ELSE IF ahead(s, r.index) = NoChar
         THEN ParseError("Unexpected end of list", r.index)
    ELSE IF next(s, r.index).c # ")"
         THEN ParseError("Unexpected end of list", r.index + 1)
    ELSE Ok(List(r.val), r.index + 1)

\* read_list that takes the end of the input for the closing parenthesis
read_list_unchecked(s, i) ==
    LET a == expect(s, i, "(")
    IN  IF a.exc # "none" THEN a
        ELSE read_list_close(parse_recursive_loop(s, a.index, <<>>))

read_list(s, i) ==
    LET a == expect(s, i, "(")
    IN  IF a.exc # "none" THEN a
        ELSE read_list_end(s, parse_recursive_loop(s, a.index, <<>>))

\* read_atom's loop that ends at a closing brace as it does at an opening one
RECURSIVE read_atom_loop(_, _, _)
read_atom_loop_no_braces(s, i, acc) ==
    IF ahead(s, i) \in ATOM_CHARS \ {"}"}
    THEN IF ahead(s, i) = "["
         THEN [broke |-> TRUE, result |-> acc, index |-> next(s, i).index]
         ELSE read_atom_loop(s, next(s, i).index, acc \o <<ahead(s, i)>>)
    ELSE [broke |-> FALSE, result |-> acc, index |-> i]

\* the `while data.ahead in ATOM_CHARS` loop of read_atom: [broke, result, index]
read_atom_loop(s, i, acc) ==
    IF ahead(s, i) \in ATOM_CHARS
    THEN IF ahead(s, i) = "["
         THEN [broke |-> TRUE, result |-> acc, index |-> next(s, i).index]
         ELSE read_atom_loop(s, next(s, i).index, acc \o <<ahead(s, i)>>)
    ELSE [broke |-> FALSE, result |-> acc, index |-> i]

\* the return of read_atom that leaves the range out of the specifier
read_atom_return_unranged(primary, msgtext, header_list, range) ==
    IF range.exc # "none" THEN range
    ELSE Ok(AttributeSpec(Str(primary), msgtext, header_list, None),
            range.index)

\* read_atom from `if data.ahead == '<'`, given the outcome of reading the
\* range
read_atom_return(primary, msgtext, header_list, range) ==
    IF range.exc # "none" THEN range
    ELSE Ok(AttributeSpec(Str(primary), msgtext, header_list, range.val),
            range.index)

\* read_atom from `if data.ahead != ']'`, given the outcome of reading the
\* header list
read_atom_range(s, primary, msgtext, header_list) ==
    IF header_list.exc # "none" THEN header_list
    ELSE IF ahead(s, header_list.index) # "]"
         THEN ParseError("Unexpected end of header list", header_list.index)
    ELSE read_atom_return(primary, msgtext, header_list.val,
            IF ahead(s, header_list.index + 1) = "<"
            THEN read_atom(s, header_list.index + 1)
            ELSE Ok(None, header_list.index + 1))

\* read_atom from `if data.ahead == ' '`, given the outcome of reading the
\* msgtext
read_atom_header_list(s, primary, msgtext) ==
    IF msgtext.exc # "none" THEN msgtext
    ELSE read_atom_range(s, primary, msgtext.val,
            IF ahead(s, msgtext.index) = " "
            THEN read_list(s, next(s, msgtext.index).index)
            ELSE Ok(None, msgtext.index))

\* read_atom after its loop: the loop's else clause, or the attribute
\* specifier that follows the "["
read_atom_msgtext(s, l) ==
    IF ~l.broke THEN Ok(Atom(l.result), l.index)
    ELSE read_atom_header_list(s, l.result,
            IF ahead(s, l.index) = "]" THEN Ok(Str(<<>>), l.index)
            ELSE read_atom(s, l.index))

read_atom(s, i) ==
    IF ahead(s, i) \notin ATOM_CHARS THEN Raise("AssertionError", "", i)
    ELSE read_atom_msgtext(s, read_atom_loop(s, i, <<>>))

\* the end of read_flag that hands back the atom it read
read_flag_atom(r) == r

\* Flag(read_atom(data).value), given the outcome of read_atom
read_flag_end(r) ==
    IF r.exc # "none" THEN r
    ELSE IF ~hasattr_value(r.val) THEN Raise("AttributeError", "value", r.index)
    ELSE Ok(Flag(r.val.value), r.index)

read_flag(s, i) ==
    LET a == expect(s, i, "\\")
    IN  IF a.exc # "none" THEN a
        ELSE read_flag_end(read_atom(s, a.index))

\* list() that puts each yielded value in front of the earlier ones
collect_front(acc, v) == <<v>> \o acc

\* list() appends each value the generator yields
collect(acc, v) == Append(acc, v)

\* the first half of the loop body of parse_recursive: the token the next
\* character selects, or no token (tok is FALSE)
dispatch(s, i) ==
    LET c == ahead(s, i)
    IN  IF c = "\"" THEN [tok |-> TRUE, r |-> read_quoted(s, i)]
        ELSE IF c = "{" THEN [tok |-> TRUE, r |-> read_literal(s, i)]
        ELSE IF c = "(" THEN [tok |-> TRUE, r |-> read_list(s, i)]
        ELSE IF c = "\\" THEN [tok |-> TRUE, r |-> read_flag(s, i)]
        ELSE IF c \in ATOM_CHARS THEN [tok |-> TRUE, r |-> read_atom(s, i)]
        ELSE [tok |-> FALSE, r |-> Ok(None, i)]

\* the second half of the loop body that goes round again only after a
\* space
parse_recursive_separator_spaced(s, acc, d) ==
    IF d.r.exc = "StopIteration" THEN Ok(acc, d.r.index)
    ELSE IF d.r.exc # "none" THEN d.r
    ELSE
    LET items == IF d.tok THEN collect(acc, d.r.val) ELSE acc
        j     == d.r.index
        c     == ahead(s, j)
    IN  IF c \in {")", NoChar} THEN Ok(items, j)
        ELSE IF c = " "
             THEN parse_recursive_loop(s, next(s, j).index, items)
        ELSE ParseError("Syntax error", j)

\* the second half of the loop body of parse_recursive, given the outcome
\* d of the first half.  A StopIteration that escapes a reader ends the
\* generator, and list() takes it for the end of the values.
parse_recursive_separator(s, acc, d) ==
    IF d.r.exc = "StopIteration" THEN Ok(acc, d.r.index)
    ELSE IF d.r.exc # "none" THEN d.r
    ELSE
    LET items == IF d.tok THEN collect(acc, d.r.val) ELSE acc
        j     == d.r.index
        c     == ahead(s, j)
    IN  IF c \in {")", NoChar} THEN Ok(items, j)
        ELSE IF c \in {" ", "("}
             THEN parse_recursive_loop(s, IF c = " " THEN next(s, j).index ELSE j,
                                       items)
        ELSE ParseError("Syntax error", j)

\* list(parse_recursive(data)): the values the generator yields, in order
parse_recursive_loop(s, i, acc) == parse_recursive_separator(s, acc, dispatch(s, i))

parse_recursive(s, i) == parse_recursive_loop(s, i, <<>>)

\* the statements of parse after list(parse_recursive(data))
parse_end(s, r) ==
    IF r.exc # "none" THEN r
    ELSE IF ahead(s, r.index) # NoChar
         THEN ParseError("Inconsistent nesting of lists", r.index)
    ELSE Ok(List(r.val), r.index)

parse(s) == parse_end(s, parse_recursive(s, 0))

\* one pass through the body of the `while True` loop of parse_recursive,
\* given the outcome d of its first half: more tells whether the loop goes
\* round again, r carries the values yielded so far and the cursor index,
\* or the exception that leaves the loop.
parse_recursive_pass(s, acc, d) ==
    IF d.r.exc = "StopIteration" THEN [more |-> FALSE, r |-> Ok(acc, d.r.index)]
    ELSE IF d.r.exc # "none" THEN [more |-> FALSE, r |-> d.r]
    ELSE
    LET items == IF d.tok THEN collect(acc, d.r.val) ELSE acc
        j     == d.r.index
        c     == ahead(s, j)
    IN  IF c \in {")", NoChar} THEN [more |-> FALSE, r |-> Ok(items, j)]
        ELSE IF c \in {" ", "("}
             THEN [more |-> TRUE,
                   r |-> Ok(items, IF c = " " THEN next(s, j).index ELSE j)]
        ELSE [more |-> FALSE, r |-> ParseError("Syntax error", j)]

(***************************************************************************)
(* Equality of values                                                      *)
(***************************************************************************)
\* Atom.__eq__ that accepts every instance of the class of self
Atom__eq__isinstance(self, o) == isinstance(o, "Atom") /\ self.value = o.value

\* Atom.__eq__(self, other); Flag inherits it
Atom__eq__(self, o) == self.t = o.t /\ self.value = o.value

\* Atom.__ne__(self, other); Flag inherits it
Atom__ne__(self, o) == ~Atom__eq__(self, o)

\* a == b for strs, Atoms and Flags: a str answers NotImplemented to an
\* operand that is no str, and Python then asks the other operand
PyEq(a, b) ==
    IF isinstance(a, "Atom") THEN Atom__eq__(a, b)
    ELSE IF isinstance(b, "Atom") THEN Atom__eq__(b, a)
    ELSE a.t = b.t /\ a.v = b.v

\* a != b, dispatched the same way
PyNe(a, b) ==
    IF isinstance(a, "Atom") THEN Atom__ne__(a, b)
    ELSE IF isinstance(b, "Atom") THEN Atom__ne__(b, a)
    ELSE ~(a.t = b.t /\ a.v = b.v)

(***************************************************************************)
(* Interpretation helpers                                                  *)
(***************************************************************************)
Return(val) == [exc |-> "none", msg |-> "", val |-> val]
ValueError(msg) == [exc |-> "ValueError", msg |-> msg, val |-> None]

astring(v) ==
    IF isinstance(v, "str") THEN Return(v)
    ELSE IF isinstance(v, "Atom") THEN Return(Str(v.value))
    ELSE ValueError("cannot be read as an astring")

NIL == <<"N", "I", "L">>

nstring(v) ==
    IF isinstance(v, "str") THEN Return(v)
    ELSE IF isinstance(v, "Atom") /\ v.value = NIL THEN Return(None)
    ELSE ValueError("cannot be read as an nstring")

number(v) ==
    IF ~hasattr_value(v) THEN ValueError("cannot be read as a number")
    ELSE LET n == PyInt(v.value)
         IN  IF n.ok THEN Return(IntVal(n.n))
             ELSE ValueError("cannot be read as a number")

(***************************************************************************)
(* Calls                                                                   *)
(***************************************************************************)
Outcome(r) == [exc |-> r.exc, msg |-> r.msg, val |-> r.val]

\* a caller hands the complete response string to parse
Parse ==
    /\ pc = "input"
    /\ \E r \in {parse(string)} :
          /\ result' = Outcome(r)
          /\ index' = r.index
    /\ pc' = "parse"
    /\ UNCHANGED <<string, value, other>>

\* passes of the top-level loop that one call is followed through
MaxPasses == 6

\* The same call taken one pass of the top-level loop at a time.  Call is
\* the entry of parse: the cursor is created at index 0 and no value has
\* been yielded.  While the loop runs, result holds the values yielded so
\* far and other the cursor indexes at which the passes began.
Call ==
    /\ pc = "input"
    /\ index' = 0
    /\ result' = Outcome(Ok(List(<<>>), 0))
    /\ other' = List(<<>>)
    /\ pc' = "parse_recursive"
    /\ UNCHANGED <<string, value>>

\* one pass of the top-level loop; when the loop is left, the rest of parse
Iterate ==
    /\ pc = "parse_recursive"
    /\ Len(other.items) < MaxPasses
    /\ \E p \in {parse_recursive_pass(string, result.val.items,
                                       dispatch(string, index))} :
          IF p.more
          THEN /\ result' = Outcome(Ok(List(p.r.val), p.r.index))
               /\ index' = p.r.index
               /\ pc' = "parse_recursive"
          ELSE \E r \in {parse_end(string, p.r)} :
               /\ result' = Outcome(r)
               /\ index' = r.index
               /\ pc' = "parse"
    /\ other' = List(Append(other.items, IntVal(index)))
    /\ UNCHANGED <<string, value>>

Astring ==
    /\ pc = "value"
    /\ result' = astring(value)
    /\ pc' = "astring"
    /\ UNCHANGED <<string, index, value, other>>

Nstring ==
    /\ pc = "value"
    /\ result' = nstring(value)
    /\ pc' = "nstring"
    /\ UNCHANGED <<string, index, value, other>>

Number ==
    /\ pc = "value"
    /\ result' = number(value)
    /\ pc' = "number"
    /\ UNCHANGED <<string, index, value, other>>

\* value == other and value != other, evaluated by the caller
Compare ==
    /\ pc = "value"
    /\ result' = [exc |-> "none", msg |-> "",
                  val |-> [t |-> "cmp", eq |-> PyEq(value, other),
                           ne |-> PyNe(value, other)]]
    /\ pc' = "compare"
    /\ UNCHANGED <<string, index, value, other>>

NoResult == [exc |-> "none", msg |-> "", val |-> None]

(***************************************************************************)
(* Bounds                                                                  *)
(***************************************************************************)
MaxLitLen == 3      \* free characters of a literal's content
MaxLitRepeat == 4   \* times the transport repeats that content
MaxAtomLen == 3     \* characters of an atom or flag name
MaxQuotedLen == 3   \* characters of a quoted string's content
MaxDepth == 5       \* nesting depth of parenthesized lists
MaxTokens == 5      \* sibling tokens of one response
MaxTextLen == 3     \* characters of the text of a helper's argument
MaxEqLen == 2       \* characters of the text of a compared value
MaxFieldLen == 3    \* characters between the braces of a literal's header
MaxRawLen == 5      \* characters of the input after an opening double quote
MaxAnyLen == 4      \* characters of an input of atoms, brackets and flags
MaxDeclared == 3    \* length that a truncated literal declares
MaxParenLen == 6    \* characters of an input of parentheses, spaces and atoms
MaxBraceLen == 5    \* characters of the input after an opening brace
MaxBodyLen == 2     \* tokens in the body of each of two adjacent lists
MaxHeaders == 2     \* atoms in the header list of an attribute specifier
MaxCursorLen == 2   \* characters of the string a cursor is created on
MaxTwoTokens == 2   \* tokens of the input of each of two calls in progress
MaxCalls == 4       \* calls made on one Account
MaxBoxes == 2       \* mailboxes in the data of a LIST response
MaxCount == 3       \* count handed to read, and how far the index may pass the end
MaxUnits == 2       \* characters or tokens inside a production that a reader is called on
MaxWords == 2       \* labels, and flags, of a metadata line
MaxUids == 2        \* uids in the data of a SEARCH response
MaxResponses == 3   \* responses that arrive for one command sent by imap_cmd

(***************************************************************************)
(* Literals: the transport embeds content verbatim after {n} CR LF         *)
(***************************************************************************)
LitChars == {"(", ")", "\"", "\\", "{", "}", " ", "\r", "\n", "a"}

RECURSIVE Decimal(_)
Decimal(n) ==
    IF n < 10 THEN <<Printable[17 + n]>>
    ELSE Decimal(n \div 10) \o <<Printable[17 + (n % 10)]>>

LiteralInput(c) == <<"{">> \o Decimal(Len(c)) \o <<"}", "\r", "\n">> \o c

RECURSIVE Repeat(_, _)
Repeat(c, k) == IF k = 0 THEN <<>> ELSE c \o Repeat(c, k - 1)

InitLiteral ==
    /\ value = Str(<<>>)
    /\ string = LiteralInput(<<>>)
    /\ index = 0 /\ result = NoResult /\ pc = "input" /\ other = None

LitAppend ==
    /\ pc = "input"
    /\ Len(value.v) < MaxLitLen
    /\ \E c \in LitChars :
          /\ value' = Str(Append(value.v, c))
          /\ string' = LiteralInput(Append(value.v, c))
    /\ UNCHANGED <<index, result, pc, other>>

LitRepeat ==
    /\ pc = "input"
    /\ Len(value.v) \in 1..MaxLitLen
    /\ \E k \in 2..MaxLitRepeat :
          /\ value' = Str(Repeat(value.v, k))
          /\ string' = LiteralInput(Repeat(value.v, k))
    /\ UNCHANGED <<index, result, pc, other>>

NextLiteral == LitAppend \/ LitRepeat \/ Parse
SpecLiteral == InitLiteral /\ [][NextLiteral]_vars

\* C1: parsing "{" n "}" CR LF c, with c of exactly n characters of any
\* kind, returns exactly one top-level value, the string c, verbatim,
\* and leaves the cursor at the end of the input.
LiteralVerbatim ==
    pc = "parse" =>
        /\ result.exc = "none"
        /\ result.val = List(<<value>>)
        /\ index = Len(string)

\* a literal of at least ten characters, delimiters among them, was parsed
LiteralVerbatimWitness ==
    /\ pc = "parse"
    /\ Len(value.v) >= 10
    /\ {"\"", ")", "\\"} \subseteq {value.v[k] : k \in 1..Len(value.v)}
    /\ result.val = List(<<value>>)

(***************************************************************************)
(* Atoms and flags                                                         *)
(***************************************************************************)
AtomInputChars == {"a", "N", "1", "-", ".", "}", "<", "[", "]", "\\"}

InitAtom ==
    /\ value = Atom(<<>>)
    /\ string = <<>>
    /\ index = 0 /\ result = NoResult /\ pc = "input" /\ other = None

AtomAppend ==
    /\ pc = "input"
    /\ Len(value.value) < MaxAtomLen
    /\ \E c \in AtomInputChars :
          /\ value' = Atom(Append(value.value, c))
          /\ string' = Append(string, c)
    /\ UNCHANGED <<index, result, pc, other>>

NextAtom == AtomAppend \/ Parse
SpecAtom == InitAtom /\ [][NextAtom]_vars

\* the characters the specification calls atom-legal: printable, and none
\* of the parentheses, braces, percent sign, asterisk, double quote, space
SpecAtomLegal(c) ==
    /\ Ord(c) \in 32..126
    /\ c \notin {"(", ")", "{", "}", "%", "*", "\"", " "}

TextOver(text, legal) == \A k \in 1..Len(text) : text[k] \in legal

OneValue(v) == result.exc = "none" /\ result.val = List(<<v>>)

InitFlag ==
    /\ value = Flag(<<>>)
    /\ string = <<"\\">>
    /\ index = 0 /\ result = NoResult /\ pc = "input" /\ other = None

FlagAppend ==
    /\ pc = "input"
    /\ Len(value.value) < MaxAtomLen
    /\ \E c \in AtomInputChars :
          /\ value' = Flag(Append(value.value, c))
          /\ string' = Append(string, c)
    /\ UNCHANGED <<index, result, pc, other>>

NextFlag == FlagAppend \/ Parse
SpecFlag == InitFlag /\ [][NextFlag]_vars

\* C6: a backslash followed by an atom-shaped name s (a non-empty string
\* that the atom reader reads as the Atom s) parses to exactly one value,
\* the Flag whose text is s without the backslash.
FlagOfName ==
    (/\ pc = "parse"
     /\ value.value # <<>>
     /\ TextOver(value.value, ATOM_CHARS \ {"["}))
    => /\ OneValue(Flag(SubSeq(string, 2, Len(string))))
       /\ index = Len(string)

\* the flag N.a was parsed from \N.a
FlagOfNameWitness ==
    /\ pc = "parse"
    /\ string = <<"\\", "N", ".", "a">>
    /\ OneValue(Flag(<<"N", ".", "a">>))

(***************************************************************************)
(* Quoted strings: the sender escapes each double quote and backslash      *)
(***************************************************************************)
QuotedChars == {"a", "b", "\"", "\\", " ", "(", "{", "\r"}

RECURSIVE Quote(_)
Quote(c) ==
    IF c = <<>> THEN <<>>
    ELSE (IF Head(c) \in {"\"", "\\"} THEN <<"\\", Head(c)>> ELSE <<Head(c)>>)
         \o Quote(Tail(c))

QuotedInput(c) == <<"\"">> \o Quote(c) \o <<"\"">>

InitQuoted ==
    /\ value = Str(<<>>)
    /\ string = QuotedInput(<<>>)
    /\ index = 0 /\ result = NoResult /\ pc = "input" /\ other = None

QuotedAppend ==
    /\ pc = "input"
    /\ Len(value.v) < MaxQuotedLen
    /\ \E c \in QuotedChars :
          /\ value' = Str(Append(value.v, c))
          /\ string' = QuotedInput(Append(value.v, c))
    /\ UNCHANGED <<index, result, pc, other>>

NextQuoted == QuotedAppend \/ Parse
SpecQuoted == InitQuoted /\ [][NextQuoted]_vars

\* C3: content without double quote and backslash, wrapped in double
\* quotes, parses to that content; and each backslash followed by a double
\* quote or a backslash contributes only the escaped character.
QuotedDecoding ==
    pc = "parse" => /\ OneValue(value)
                    /\ index = Len(string)

\* the input "a\"b" was parsed to a"b
QuotedDecodingWitness ==
    /\ pc = "parse"
    /\ string = <<"\"", "a", "\\", "\"", "b", "\"">>
    /\ OneValue(Str(<<"a", "\"", "b">>))

(***************************************************************************)
(* Nested lists: a list is wrapped, with siblings, in a further list       *)
(***************************************************************************)
foo == <<"f", "o", "o">>
bar == <<"b", "a", "r">>
baz == <<"b", "a", "z">>

RECURSIVE Depth(_)
Depth(v) ==
    IF v.t # "list" THEN 0
    ELSE LET ds == {Depth(v.items[k]) : k \in 1..Len(v.items)}
         IN  1 + (IF ds = {} THEN 0 ELSE CHOOSE d \in ds : \A e \in ds : e <= d)

\* what may stand before and after a list inside its enclosing list
Before ==
    { [text |-> <<>>, items |-> <<>>],
      [text |-> foo \o <<" ">>, items |-> <<Atom(foo)>>],
      [text |-> <<"(", ")">>, items |-> <<List(<<>>)>>] }

After ==
    { [text |-> <<>>, items |-> <<>>],
      [text |-> <<" ">> \o baz, items |-> <<Atom(baz)>>] }

InitNested ==
    /\ \/ value = List(<<>>) /\ string = <<"(", ")">>
       \/ /\ value = List(<<Atom(bar), Atom(baz)>>)
          /\ string = <<"(">> \o bar \o <<" ">> \o baz \o <<")">>
    /\ index = 0 /\ result = NoResult /\ pc = "input" /\ other = None

Wrap ==
    /\ pc = "input"
    /\ Depth(value) < MaxDepth
    /\ \E b \in Before, a \in After :
          /\ value' = List(b.items \o <<value>> \o a.items)
          /\ string' = <<"(">> \o b.text \o string \o a.text \o <<")">>
    /\ UNCHANGED <<index, result, pc, other>>

NextNested == Wrap \/ Parse
SpecNested == InitNested /\ [][NextNested]_vars

\* C4: a balanced input of nested parenthesized lists parses to a value
\* tree whose list nesting mirrors the parentheses: each ( ... ) group is
\* one List holding the values between its parentheses.
NestingMirrorsParens ==
    pc = "parse" => /\ OneValue(value)
                    /\ index = Len(string)

\* lists nested five deep were parsed
NestingMirrorsParensWitness ==
    /\ pc = "parse"
    /\ Depth(value) >= 5
    /\ OneValue(value)

(***************************************************************************)
(* Token sequences: tokens are appended at the top level or inside the     *)
(* last top-level list                                                     *)
(***************************************************************************)
UID == <<"U", "I", "D">>
Deleted == <<"D", "e", "l", "e", "t", "e", "d">>

Tokens ==
    { [text |-> UID, val |-> Atom(UID)],
      [text |-> <<"1", "7">>, val |-> Atom(<<"1", "7">>)],
      [text |-> LiteralInput(<<")", " ", "\"">>), val |-> Str(<<")", " ", "\"">>)],
      [text |-> <<"\\", "S">>, val |-> Flag(<<"S">>)],
      [text |-> <<"(", ")">>, val |-> List(<<>>)],
      [text |-> <<"(", "\\">> \o Deleted \o <<")">>, val |-> List(<<Flag(Deleted)>>)] }

RECURSIVE SizeOf(_), SizeOfAll(_)
SizeOf(v) == IF v.t = "list" THEN 1 + SizeOfAll(v.items) ELSE 1
SizeOfAll(vs) == IF vs = <<>> THEN 0 ELSE SizeOf(Head(vs)) + SizeOfAll(Tail(vs))

InitTokens ==
    /\ value = List(<<>>)
    /\ string = <<>>
    /\ index = 0 /\ result = NoResult /\ pc = "input" /\ other = None

AppendTop ==
    /\ pc = "input"
    /\ \E tok \in Tokens :
          /\ SizeOf(value) - 1 + SizeOf(tok.val) <= MaxTokens
          /\ value' = List(Append(value.items, tok.val))
          /\ string' = IF string = <<>> THEN tok.text
                       ELSE string \o <<" ">> \o tok.text
    /\ UNCHANGED <<index, result, pc, other>>

AppendInLast ==
    /\ pc = "input"
    /\ value.items # <<>>
    /\ LET n    == Len(value.items)
           last == value.items[n]
       IN  /\ last.t = "list"
           /\ \E tok \in Tokens :
                 /\ SizeOf(value) - 1 + SizeOf(tok.val) <= MaxTokens
                 /\ value' = List([value.items EXCEPT
                                     ![n] = List(Append(last.items, tok.val))])
                 /\ string' = SubSeq(string, 1, Len(string) - 1)
                              \o (IF last.items = <<>> THEN <<>> ELSE <<" ">>)
                              \o tok.text \o <<")">>
    /\ UNCHANGED <<index, result, pc, other>>

NextTokens == AppendTop \/ AppendInLast \/ Parse
SpecTokens == InitTokens /\ [][NextTokens]_vars

\* C5: parse returns the top-level values, and each List its items, in
\* the order in which their tokens stand in the input, none dropped,
\* duplicated or reordered.
SourceOrder ==
    pc = "parse" => /\ result.exc = "none"
                    /\ result.val = value

\* (UID {3}CRLF) " (\Deleted)) was parsed to one List of Atom UID, the
\* string of the literal and a nested List of Flag Deleted
SourceOrderWitness ==
    /\ pc = "parse"
    /\ result.exc = "none"
    /\ result.val = List(<<List(<<Atom(UID), Str(<<")", " ", "\"">>),
                                  List(<<Flag(Deleted)>>)>>)>>)

(***************************************************************************)
(* Comparisons                                                             *)
(***************************************************************************)
EqChars == {"f", "o"}

RECURSIVE Texts(_, _)
Texts(chars, n) ==
    IF n = 0 THEN {<<>>}
    ELSE LET shorter == Texts(chars, n - 1)
         IN  shorter \cup {Append(t, c) : t \in shorter, c \in chars}

EqValues ==
    UNION {{Str(t), Atom(t), Flag(t)} : t \in Texts(EqChars, MaxEqLen)}

InitEq ==
    /\ value \in EqValues
    /\ other \in EqValues
    /\ string = <<>> /\ index = 0 /\ result = NoResult /\ pc = "value"

NextEq == Compare
SpecEq == InitEq /\ [][NextEq]_vars

TextOf(v) == IF v.t = "str" THEN v.v ELSE v.value

\* C7: two values compare equal only when they are of the same variant
\* and have identical text; an Atom and a str of the same text are unequal
\* in either operand order, an Atom and a Flag of the same name are
\* unequal, and != is the negation of ==.
EqualityKeepsClasses ==
    pc = "compare" =>
        /\ result.val.eq => (value.t = other.t /\ TextOf(value) = TextOf(other))
        /\ {value.t, other.t} = {"Atom", "str"} => ~result.val.eq
        /\ {value.t, other.t} = {"Atom", "Flag"} => ~result.val.eq
        /\ result.val.ne = ~result.val.eq

\* a str was compared with the Atom of the same text and found unequal
EqualityKeepsClassesWitness ==
    /\ pc = "compare"
    /\ value = Str(<<"f", "o">>)
    /\ other = Atom(<<"f", "o">>)
    /\ ~result.val.eq
    /\ result.val.ne

(***************************************************************************)
(* Interpretation helpers applied to values of every shape                 *)
(***************************************************************************)
HelperChars == {"N", "I", "L", "n", "4", "2", "-"}

HelperValues ==
    UNION {{Str(t), Atom(t), Flag(t)} : t \in Texts(HelperChars, MaxTextLen)}
    \cup { List(<<Str(foo), Str(bar)>>), List(<<>>), IntVal(42), None,
           AttributeSpec(Str(<<"B">>), Str(<<>>), None, None),
           AttributeSpec(Str(<<"B">>), Atom(<<"4">>), List(<<Atom(NIL)>>), None) }

InitHelpers ==
    /\ value \in HelperValues
    /\ string = <<>> /\ index = 0 /\ result = NoResult /\ pc = "value"
    /\ other = None

NextHelpers == Astring \/ Nstring \/ Number
SpecHelpers == InitHelpers /\ [][NextHelpers]_vars

\* C8: astring returns the text of a str and of an Atom, and fails with a
\* conversion error for every other shape: a Flag, a List, an
\* AttributeSpec or a number.
AstringShapes ==
    pc = "astring" =>
        /\ value.t = "str" => result = Return(value)
        /\ value.t = "Atom" => result = Return(Str(value.value))
        /\ value.t \notin {"str", "Atom"} => result.exc = "ValueError"

\* C9: nstring returns a str itself, returns None only for the Atom whose
\* text is exactly NIL, and fails for every other value, a Flag named NIL
\* included.
NstringShapes ==
    pc = "nstring" =>
        /\ value.t = "str" => result = Return(value)
        /\ value = Atom(NIL) => result = Return(None)
        /\ (value.t # "str" /\ value # Atom(NIL)) => result.exc = "ValueError"

\* C10: number returns n only for an Atom whose text is the base-10
\* representation of n, and fails with a conversion error for every other
\* value.
NumberShapes ==
    pc = "number" =>
        LET numeric == value.t = "Atom" /\ PyInt(value.value).ok
        IN  /\ numeric => result = Return(IntVal(PyInt(value.value).n))
            /\ ~numeric => result.exc = "ValueError"

(***************************************************************************)
(* Literal headers: any text between the braces, before and after it what  *)
(* a response may hold; the call is followed pass by pass                  *)
(***************************************************************************)
FieldChars == {"-", "+", "1", "7", "a"}
HeaderLeads == {<<>>, <<" ">>, <<"a", " ">>}
HeaderTails == {<<>>, <<"a">>, <<"a", "b">>}

HeaderInput(lead, field, tail) ==
    lead \o <<"{">> \o field \o <<"}", "\r", "\n">> \o tail

\* value holds the three parts the input is assembled from
HeaderParts(lead, field, tail) == List(<<Str(lead), Str(field), Str(tail)>>)

InitHeader ==
    /\ \E lead \in HeaderLeads, tail \in HeaderTails :
          /\ value = HeaderParts(lead, <<>>, tail)
          /\ string = HeaderInput(lead, <<>>, tail)
    /\ index = 0 /\ result = NoResult /\ pc = "input" /\ other = None

FieldAppend ==
    /\ pc = "input"
    /\ Len(value.items[2].v) < MaxFieldLen
    /\ \E c \in FieldChars :
          LET lead  == value.items[1].v
              field == Append(value.items[2].v, c)
              tail  == value.items[3].v
          IN  /\ value' = HeaderParts(lead, field, tail)
              /\ string' = HeaderInput(lead, field, tail)
    /\ UNCHANGED <<index, result, pc, other>>

NextHeader == FieldAppend \/ Call \/ Iterate
SpecHeader == InitHeader /\ [][NextHeader]_vars

\* C11: parse terminates on every finite input: no input makes the
\* dispatcher loop come back to an input position.  The loop is
\* deterministic in the cursor index, so a pass that begins at an index at
\* which an earlier pass began is followed by the same passes for ever;
\* the claim is that no two passes of one call begin at the same index.
ParseTerminates ==
    pc \in {"parse_recursive", "parse"} =>
        \A j, k \in 1..Len(other.items) :
            j # k => other.items[j] # other.items[k]

\* the text of a non-negative decimal integer: digits, and at least one
NonNegativeDecimal(text) ==
    /\ Len(text) > 0
    /\ \A k \in 1..Len(text) : text[k] \in Digits

\* C12: a literal whose length field is not the text of a non-negative
\* decimal integer (empty, holding a non-digit, signed or negative) makes
\* parse fail with a ParseError, and nothing is read as its content.
LengthFieldIsChecked ==
    (pc = "parse" /\ ~NonNegativeDecimal(value.items[2].v)) =>
        /\ result.exc = "ParseError"
        /\ result.val = None

\* C20: parse returns a result only when the cursor has consumed the whole
\* input: on return the cursor index is the length of the input.
ReturnsAtEndOfInput ==
    (pc = "parse" /\ result.exc = "none") => index = Len(string)

\* C33: during a parse no step of the cursor moves the index back: every
\* pass of the top-level loop, and the end of parse, leaves the index where
\* it was or further on.
IndexNeverMovesBack ==
    [][pc = "parse_recursive" => index' >= index]_vars

(***************************************************************************)
(* Quoted strings as they arrive: any characters after the opening quote   *)
(***************************************************************************)
RawChars == {"a", "\\", "\""}

\* value holds the characters that follow the opening quote
InitRaw ==
    /\ value = Str(<<>>)
    /\ string = <<"\"">>
    /\ index = 0 /\ result = NoResult /\ pc = "input" /\ other = None

RawAppend ==
    /\ pc = "input"
    /\ Len(value.v) < MaxRawLen
    /\ \E c \in RawChars :
          /\ value' = Str(Append(value.v, c))
          /\ string' = Append(string, c)
    /\ UNCHANGED <<index, result, pc, other>>

NextRaw == RawAppend \/ Parse
SpecRaw == InitRaw /\ [][NextRaw]_vars

\* inside the quoted string that begins before raw[k], a backslash stands
\* before a character other than a double quote or a backslash
RECURSIVE OtherEscape(_, _)
OtherEscape(raw, k) ==
    IF k > Len(raw) \/ raw[k] = "\"" THEN FALSE
    ELSE IF raw[k] = "\\" /\ k < Len(raw)
         THEN raw[k + 1] \notin {"\"", "\\"} \/ OtherEscape(raw, k + 2)
    ELSE OtherEscape(raw, k + 1)

\* C13: inside a quoted string, a backslash followed by a character other
\* than a double quote or a backslash makes the parse fail with a
\* ParseError; the backslash is never passed through.
OtherEscapeFails ==
    (pc = "parse" /\ OtherEscape(value.v, 1)) =>
        /\ result.exc = "ParseError"
        /\ result.val = None

\* the input ends before an unescaped closing quote is met from raw[k] on
RECURSIVE Unterminated(_, _)
Unterminated(raw, k) ==
    IF k > Len(raw) THEN TRUE
    ELSE IF raw[k] = "\"" THEN FALSE
    ELSE Unterminated(raw, IF /\ raw[k] = "\\"
                              /\ k < Len(raw)
                              /\ raw[k + 1] \in {"\"", "\\"}
                           THEN k + 2 ELSE k + 1)

\* C17: when the input ends inside a quoted string, before an unescaped
\* closing quote (an input ending in an escaped quote included), parse
\* fails with the ParseError of an unexpected end of a quoted string and
\* returns no value.
UnterminatedQuotedFails ==
    (pc = "parse" /\ Unterminated(value.v, 1)) =>
        /\ result.exc = "ParseError"
        /\ result.msg = "Unexpected end of quoted string"
        /\ result.val = None

UnterminatedQuotedFailsWitness ==
    /\ pc = "parse"
    /\ string = <<"\"", "a", "\\", "\"">>
    /\ Unterminated(value.v, 1)
    /\ result.msg = "Unexpected end of quoted string"

(***************************************************************************)
(* Any input of atoms, attribute specifiers, flags and lists               *)
(***************************************************************************)
AnyChars == {"a", "[", "]", " ", "(", ")", "\\"}

InitAny ==
    /\ string = <<>>
    /\ index = 0 /\ result = NoResult /\ pc = "input"
    /\ value = None /\ other = None

AnyAppend ==
    /\ pc = "input"
    /\ Len(string) < MaxAnyLen
    /\ \E c \in AnyChars : string' = Append(string, c)
    /\ UNCHANGED <<index, result, pc, value, other>>

NextAny == AnyAppend \/ Parse
SpecAny == InitAny /\ [][NextAny]_vars

\* an input of atoms, spaces and parentheses in which an attribute
\* specifier is opened and no closing bracket follows
UnterminatedSpecifier(s) ==
    /\ TextOver(s, AnyChars \ {"\\"})
    /\ \E k \in 1..Len(s) :
          /\ s[k] = "["
          /\ \A j \in 1..Len(s) : s[j] # "]"

\* C14: when an attribute specifier is opened by a bracket and no closing
\* bracket follows (the input ends right after the bracket, after the
\* msgtext or after the space before the header list), parse fails with a
\* ParseError and returns no value sequence.
UnterminatedSpecifierFails ==
    (pc = "parse" /\ UnterminatedSpecifier(string)) =>
        /\ result.exc = "ParseError"
        /\ result.val = None

\* C15: every rejection by parse is a ParseError: parse fails with no
\* other kind of failure.
RejectionIsParseError ==
    pc = "parse" => result.exc \in {"none", "ParseError"}

(***************************************************************************)
(* Truncated literals: the header declares more than what follows it       *)
(***************************************************************************)
TruncatedInput(n, c) == <<"{">> \o Decimal(n) \o <<"}", "\r", "\n">> \o c

\* other holds the declared length, value the shorter content
InitTruncated ==
    /\ \E n \in 1..MaxDeclared :
          /\ other = IntVal(n)
          /\ string = TruncatedInput(n, <<>>)
    /\ value = Str(<<>>)
    /\ index = 0 /\ result = NoResult /\ pc = "input"

TruncatedAppend ==
    /\ pc = "input"
    /\ Len(value.v) + 1 < other.v
    /\ \E c \in LitChars :
          /\ value' = Str(Append(value.v, c))
          /\ string' = TruncatedInput(other.v, Append(value.v, c))
    /\ UNCHANGED <<index, result, pc, other>>

NextTruncated == TruncatedAppend \/ Parse
SpecTruncated == InitTruncated /\ [][NextTruncated]_vars

\* C16: a literal that declares a length larger than the number of
\* characters that follow its CR LF makes parse fail with the ParseError of
\* an unexpected end of a literal string, which is neither the error of an
\* unterminated quoted string nor that of an unterminated list, and no
\* value is returned.
TruncatedLiteralFails ==
    pc = "parse" =>
        /\ result.exc = "ParseError"
        /\ result.msg = "Unexpected end of literal string"
        /\ result.msg # read_quoted(<<"\"">>, 0).msg
        /\ result.msg # read_list(<<"(">>, 0).msg
        /\ result.val = None

TruncatedLiteralFailsWitness ==
    /\ pc = "parse"
    /\ string = <<"{", "3", "}", "\r", "\n", "a", "a">>
    /\ value = Str(<<"a", "a">>)
    /\ result.msg = "Unexpected end of literal string"

(***************************************************************************)
(* Any input of parentheses, spaces and atoms                              *)
(***************************************************************************)
ParenChars == {"(", ")", " ", "a"}

InitParen ==
    /\ string = <<>>
    /\ index = 0 /\ result = NoResult /\ pc = "input"
    /\ value = None /\ other = None

ParenAppend ==
    /\ pc = "input"
    /\ Len(string) < MaxParenLen
    /\ \E c \in ParenChars : string' = Append(string, c)
    /\ UNCHANGED <<index, result, pc, value, other>>

NextParen == ParenAppend \/ Parse
SpecParen == InitParen /\ [][NextParen]_vars

\* lists open after the first k characters of s: opening parentheses less
\* closing ones
RECURSIVE OpenLists(_, _)
OpenLists(s, k) ==
    IF k = 0 THEN 0
    ELSE OpenLists(s, k - 1) + (IF s[k] = "(" THEN 1 ELSE IF s[k] = ")" THEN 0 - 1 ELSE 0)

\* no atom follows a closing parenthesis without a space between them
\* (the dispatcher reports that as a syntax error where it stands)
ListsSeparated(s) ==
    \A k \in 1..(Len(s) - 1) : s[k] = ")" => s[k + 1] \in {" ", "(", ")"}

\* every closing parenthesis of s closes a list, and a list is open at the end
EndsInsideList(s) ==
    /\ ListsSeparated(s)
    /\ \A k \in 1..Len(s) : OpenLists(s, k) >= 0
    /\ OpenLists(s, Len(s)) > 0

\* C18: when the input, of tokens that are well formed up to its end, ends
\* before the closing parenthesis of a list opened at any depth, parse
\* fails with the ParseError of an unexpected end of a list and returns no
\* partial list.
UnterminatedListFails ==
    (pc = "parse" /\ EndsInsideList(string)) =>
        /\ result.exc = "ParseError"
        /\ result.msg = "Unexpected end of list"
        /\ result.val = None

UnterminatedListFailsWitness ==
    /\ pc = "parse"
    /\ string = <<"(", "a", " ", "(", "a", ")">>
    /\ EndsInsideList(string)
    /\ result.msg = "Unexpected end of list"

(***************************************************************************)
(* Literal headers as they arrive: any characters after the opening brace  *)
(***************************************************************************)
BraceChars == {"1", "}", "\r", "\n", "a"}

\* value holds the characters that follow the opening brace
InitBrace ==
    /\ value = Str(<<>>)
    /\ string = <<"{">>
    /\ index = 0 /\ result = NoResult /\ pc = "input" /\ other = None

BraceAppend ==
    /\ pc = "input"
    /\ Len(value.v) < MaxBraceLen
    /\ \E c \in BraceChars :
          /\ value' = Str(Append(value.v, c))
          /\ string' = Append(string, c)
    /\ UNCHANGED <<index, result, pc, other>>

NextBrace == BraceAppend \/ Parse
SpecBrace == InitBrace /\ [][NextBrace]_vars

\* the first closing brace of text is followed by CR and then LF
ClosedByCRLF(text) ==
    \E k \in 1..Len(text) :
        /\ text[k] = "}"
        /\ \A j \in 1..(k - 1) : text[j] # "}"
        /\ k + 2 <= Len(text)
        /\ text[k + 1] = "\r"
        /\ text[k + 2] = "\n"

\* C19: a literal whose closing brace is not followed at once by CR and
\* then LF (CR missing, LF missing, another character, the end of the
\* input, or no closing brace at all) is rejected with a ParseError.
LiteralNeedsCRLF ==
    (pc = "parse" /\ ~ClosedByCRLF(value.v)) =>
        /\ result.exc = "ParseError"
        /\ result.msg = "Syntax error in literal string"
        /\ result.val = None

LiteralNeedsCRLFWitness ==
    /\ pc = "parse"
    /\ string = <<"{", "1", "}", "\n", "a">>
    /\ ~ClosedByCRLF(value.v)
    /\ result.exc = "ParseError"

\* an atom stands right before an opening parenthesis
AtomThenList(s) ==
    \E k \in 1..(Len(s) - 1) : s[k] = "a" /\ s[k + 1] = "("

\* C21: an opening parenthesis that follows a token with no space between
\* them is accepted only after a parenthesized list: right after an atom
\* it is a syntax error.
ListAfterAtomFails ==
    (pc = "parse" /\ AtomThenList(string)) => result.exc = "ParseError"

(***************************************************************************)
(* Adjacent lists: (X (A)(B)), with the same input spaced in other         *)
(***************************************************************************)
X == <<"X">>

BodyTokens ==
    { [text |-> UID, val |-> Atom(UID)],
      [text |-> <<"\"", "a", "\"">>, val |-> Str(<<"a">>)],
      [text |-> LiteralInput(<<")", "(">>), val |-> Str(<<")", "(">>)],
      [text |-> <<"(", "\\">> \o Deleted \o <<")">>, val |-> List(<<Flag(Deleted)>>)] }

Adjacent(a, b, sep) ==
    <<"(">> \o X \o <<" ", "(">> \o a \o <<")">> \o sep \o <<"(">> \o b \o <<")", ")">>

\* value holds the two bodies as values, other as text
Bodies(a, b) == List(<<a, b>>)

InitAdjacent ==
    /\ value = Bodies(List(<<>>), List(<<>>))
    /\ other = Bodies(Str(<<>>), Str(<<>>))
    /\ string = Adjacent(<<>>, <<>>, <<>>)
    /\ index = 0 /\ result = NoResult /\ pc = "input"

\* a token is appended to the body of the first (n = 1) or second list
BodyAppend ==
    /\ pc = "input"
    /\ \E n \in 1..2, tok \in BodyTokens :
          /\ Len(value.items[n].items) < MaxBodyLen
          /\ LET vals == Append(value.items[n].items, tok.val)
                 old  == other.items[n].v
                 text == (IF old = <<>> THEN <<>> ELSE old \o <<" ">>) \o tok.text
             IN  /\ value' = List([value.items EXCEPT ![n] = List(vals)])
                 /\ other' = List([other.items EXCEPT ![n] = Str(text)])
                 /\ string' = IF n = 1
                               THEN Adjacent(text, other.items[2].v, <<>>)
                               ELSE Adjacent(other.items[1].v, text, <<>>)
    /\ UNCHANGED <<index, result, pc>>

NextAdjacent == BodyAppend \/ Parse
SpecAdjacent == InitAdjacent /\ [][NextAdjacent]_vars

\* C22: two adjacent lists parse to the same result with and without one
\* space between them: parse of (X (A)(B)) succeeds and equals parse of
\* (X (A) (B)), for all bodies A and B.
AdjacentListsAlike ==
    pc = "parse" =>
        /\ result.exc = "none"
        /\ result.val = parse(Adjacent(other.items[1].v, other.items[2].v, <<" ">>)).val

AdjacentListsAlikeWitness ==
    /\ pc = "parse"
    /\ result.val = List(<<List(<<Atom(X), List(<<Atom(UID), Str(<<"a">>)>>),
                                 List(<<List(<<Flag(Deleted)>>)>>)>>)>>)
    /\ string = Adjacent(other.items[1].v, other.items[2].v, <<>>)

(***************************************************************************)
(* The cursor on its own: any sequence of ahead, next and read             *)
(***************************************************************************)
CursorChars == {"a", "b"}
CursorStrings == UNION {[1..n -> CursorChars] : n \in 0..MaxCursorLen}

\* LookAheadStringIter(string): other holds the count of the last read
InitCursor ==
    /\ string \in CursorStrings
    /\ index = 0
    /\ result = NoResult /\ pc = "input"
    /\ value = None /\ other = None

CursorAhead ==
    /\ result' = Return(IF ahead(string, index) = NoChar THEN None
                        ELSE Str(<<ahead(string, index)>>))
    /\ pc' = "ahead"
    /\ other' = None
    /\ UNCHANGED <<string, index, value>>

CursorNext ==
    /\ LET n == next(string, index)
       IN  /\ result' = IF n.stop
                         THEN [exc |-> "StopIteration", msg |-> "", val |-> None]
                         ELSE Return(Str(<<n.c>>))
           /\ index' = n.index
    /\ pc' = "next"
    /\ other' = None
    /\ UNCHANGED <<string, value>>

CursorRead ==
    /\ \E count \in 0..MaxCount :
          /\ index + count <= Len(string) + MaxCount
          /\ LET r == read(string, index, count)
             IN  /\ result' = Return(Str(r.result))
                 /\ index' = r.index
          /\ other' = IntVal(count)
    /\ pc' = "read"
    /\ UNCHANGED <<string, value>>

CursorReadAll ==
    /\ LET r == read_all(string, index)
       IN  /\ result' = Return(Str(r.result))
           /\ index' = r.index
    /\ other' = None
    /\ pc' = "read"
    /\ UNCHANGED <<string, value>>

NextCursor == CursorAhead \/ CursorNext \/ CursorRead \/ CursorReadAll
SpecCursor == InitCursor /\ [][NextCursor]_vars

\* C23: in every state reached by any sequence of ahead, next and read,
\* the index is between 0 and the length of the input.
CursorIndexInRange == index \in 0..Len(string)

\* the characters of s that follow position i
Remaining(s, i) == IF i >= Len(s) THEN <<>> ELSE SubSeq(s, i + 1, Len(s))

\* C24: read(n) returns the next min(n, remaining) characters and moves
\* the index on by exactly the number of characters it returned; read()
\* returns all remaining characters, the empty string at the end, and
\* leaves the index at the end of the input.
ReadAdvancesByReturned ==
    [][pc' = "read" =>
         LET rest == Remaining(string, index)
             ret  == result'.val.v
         IN  IF other'.t = "int"
             THEN /\ ret = SubSeq(rest, 1, Min(other'.v, Len(rest)))
                  /\ index' = index + Len(ret)
             ELSE /\ ret = rest
                  /\ index' = Len(string)]_vars

\* C25: ahead returns the character at the index, or nothing at the end of
\* the input, and leaves the index alone; next returns that character and
\* moves the index on by one; at the end of the input next signals the end,
\* leaves the index alone, and the cursor stays at the end for later calls.
LookAheadAndAdvance ==
    [][/\ pc' = "ahead" =>
            /\ index' = index
            /\ result' = Return(IF index < Len(string)
                                THEN Str(<<string[index + 1]>>) ELSE None)
       /\ pc' = "next" =>
            IF index < Len(string)
            THEN /\ result' = Return(Str(<<string[index + 1]>>))
                 /\ index' = index + 1
            ELSE /\ result'.exc = "StopIteration"
                 /\ index' = index
       /\ (pc = "next" /\ result.exc = "StopIteration") =>
            index' >= Len(string)]_vars

LookAheadAndAdvanceWitness ==
    /\ pc = "next"
    /\ result.exc = "StopIteration"
    /\ string = <<"a", "b">>
    /\ index = 2

(***************************************************************************)
(* Attribute specifiers: P[], P[M], P[M (H1 ... Hk)], each with or without *)
(* a range                                                                 *)
(***************************************************************************)
\* ' '.join(texts)
RECURSIVE JoinSpace(_)
JoinSpace(texts) ==
    IF texts = <<>> THEN <<>>
    ELSE IF Len(texts) = 1 THEN texts[1]
    ELSE texts[1] \o <<" ">> \o JoinSpace(Tail(texts))

\* str(v) for a str, an Atom, a Flag and an AttributeSpec
RECURSIVE str(_)
str(v) ==
    CASE v.t = "str" -> v.v
      [] v.t = "Atom" -> v.value
      [] v.t = "Flag" -> <<"\\">> \o v.value
      [] v.t = "AttributeSpec" ->
           str(v.primary)
           \o (IF v.msgtext = None THEN <<>>
               ELSE IF v.header_list = None
                    THEN <<"[">> \o str(v.msgtext) \o <<"]">>
               ELSE <<"[">> \o str(v.msgtext) \o <<" ", "(">>
                    \o JoinSpace([k \in 1..Len(v.header_list.items) |->
                                     str(v.header_list.items[k])])
                    \o <<")", "]">>)
           \o (IF v.range = None THEN <<>> ELSE v.range.value)

BODY == <<"B", "O", "D", "Y">>
Primaries == {<<"B">>, BODY, <<"R", ".", "P">>}
Msgtexts == {<<"H">>, <<"H", ".", "F">>}
HeaderNames == {<<"F">>, <<"T", "O">>}
Ranges == {<<"<", "0", ">">>}

\* the text a server writes for the specifier v
SpecifierText(v) ==
    v.primary.v \o <<"[">>
    \o (IF v.msgtext.t = "Atom" THEN v.msgtext.value ELSE <<>>)
    \o (IF v.header_list = None THEN <<>>
        ELSE <<" ", "(">>
             \o JoinSpace([k \in 1..Len(v.header_list.items) |->
                              v.header_list.items[k].value])
             \o <<")">>)
    \o <<"]">>
    \o (IF v.range = None THEN <<>> ELSE v.range.value)

InitSpecifier ==
    /\ \E p \in Primaries :
          /\ value = AttributeSpec(Str(p), Str(<<>>), None, None)
          /\ string = p \o <<"[", "]">>
    /\ index = 0 /\ result = NoResult /\ pc = "input" /\ other = None

SetMsgtext ==
    /\ pc = "input"
    /\ value.msgtext = Str(<<>>)
    /\ \E m \in Msgtexts :
          LET v == [value EXCEPT !.msgtext = Atom(m)]
          IN  value' = v /\ string' = SpecifierText(v)
    /\ UNCHANGED <<index, result, pc, other>>

AppendHeader ==
    /\ pc = "input"
    /\ value.msgtext # Str(<<>>)
    /\ \E h \in HeaderNames :
          LET hs == IF value.header_list = None THEN <<>>
                    ELSE value.header_list.items
              v  == [value EXCEPT !.header_list = List(Append(hs, Atom(h)))]
          IN  /\ Len(hs) < MaxHeaders
              /\ value' = v /\ string' = SpecifierText(v)
    /\ UNCHANGED <<index, result, pc, other>>

SetRange ==
    /\ pc = "input"
    /\ value.range = None
    /\ \E r \in Ranges :
          LET v == [value EXCEPT !.range = Atom(r)]
          IN  value' = v /\ string' = SpecifierText(v)
    /\ UNCHANGED <<index, result, pc, other>>

NextSpecifier == SetMsgtext \/ AppendHeader \/ SetRange \/ Parse
SpecSpecifier == InitSpecifier /\ [][NextSpecifier]_vars

\* C26: for the texts P[], P[M] and P[M (H1 ... Hk)], each with or without
\* a range after the bracket, the atom reader returns an AttributeSpec
\* with primary P, msgtext M (empty for P[]), the header list or none and
\* the range or none, and printing it gives back the input text.
SpecifierRoundTrip ==
    pc = "parse" =>
        /\ OneValue(value)
        /\ str(result.val.items[1]) = string
        /\ index = Len(string)

SpecifierRoundTripWitness ==
    /\ pc = "parse"
    /\ string = BODY \o <<"[", "H", ".", "F", " ", "(", "F", ")", "]", "<", "0", ">">>
    /\ result.val = List(<<AttributeSpec(Str(BODY), Atom(<<"H", ".", "F">>),
                                         List(<<Atom(<<"F">>)>>),
                                         Atom(<<"<", "0", ">">>))>>)
    /\ str(result.val.items[1]) = string

(***************************************************************************)
(* Two calls of parse in progress at once, a pass of the top-level loop of *)
(* either being one step.  string, index, result and pc hold a pair, one   *)
(* component per call; value holds the class attribute index.              *)
(***************************************************************************)
TwoTokens == {<<"a">>, <<"(", "a", ")">>, <<"\"", "q", "\"">>}
TwoInputs ==
    {JoinSpace(ts) : ts \in UNION {[1..n -> TwoTokens] : n \in 0..MaxTwoTokens}}

InitTwo ==
    /\ string \in TwoInputs \X TwoInputs
    /\ index = <<None, None>>
    /\ result = <<NoResult, NoResult>>
    /\ pc = <<"input", "input">>
    /\ value = IntVal(0)
    /\ other = None

\* call k enters parse and creates its cursor
TwoCall ==
    /\ \E k \in 1..2 :
          /\ pc[k] = "input"
          /\ pc' = [pc EXCEPT ![k] = "parse_recursive"]
          /\ result' = [result EXCEPT ![k] = Outcome(Ok(List(<<>>), 0))]
    /\ UNCHANGED <<string, index, value, other>>

\* call k makes one pass of its top-level loop; when the loop is left, the
\* rest of parse
TwoIterate ==
    /\ \E k \in 1..2 :
          /\ pc[k] = "parse_recursive"
          /\ \E p \in {parse_recursive_pass(string[k], result[k].val.items,
                            dispatch(string[k], self_index(value, index[k])))} :
              \E r \in {IF p.more THEN p.r ELSE parse_end(string[k], p.r)} :
              \E a \in {IF r.index = self_index(value, index[k])
                         THEN [cls |-> value, own |-> index[k]]
                         ELSE set_index(value, index[k], r.index)} :
                 /\ result' = [result EXCEPT ![k] =
                                  IF p.more THEN Outcome(Ok(List(r.val), r.index))
                                  ELSE Outcome(r)]
                 /\ pc' = [pc EXCEPT ![k] =
                              IF p.more THEN "parse_recursive" ELSE "parse"]
                 /\ index' = [index EXCEPT ![k] = a.own]
                 /\ value' = a.cls
    /\ UNCHANGED <<string, other>>

NextTwo == TwoCall \/ TwoIterate
SpecTwo == InitTwo /\ [][NextTwo]_vars

\* C27: parses share no mutable state: a new cursor starts at index 0,
\* the steps of one call never move the cursor of the other, and under
\* every interleaving of their steps each call ends with the result or
\* error, and at the index, that it ends with when run alone.
ParsesShareNothing ==
    \A k \in 1..2 :
        /\ pc[k] = "input" => self_index(value, index[k]) = 0
        /\ pc[k] = "parse" =>
              /\ result[k] = Outcome(parse(string[k]))
              /\ self_index(value, index[k]) = parse(string[k]).index

\* both calls ran on the same two-token input, interleaved, and ended
ParsesShareNothingWitness ==
    /\ pc = <<"parse", "parse">>
    /\ string[1] = <<"a", " ", "(", "a", ")">>
    /\ string[2] = string[1]
    /\ result[1].val = List(<<Atom(<<"a">>), List(<<Atom(<<"a">>)>>)>>)
    /\ result[2] = result[1]

(***************************************************************************)
(* Account, called without a callback: every command is answered before    *)
(* the call returns.  value holds the Account, other its connection with   *)
(* the commands sent and their responses, index the number of calls made.  *)
(***************************************************************************)
Bool(b) == [t |-> "bool", v |-> b]
AuthError == [t |-> "AuthError"]
IMAPError == [t |-> "IMAPError"]

\* self.conn as a value that is handed back
Conn == [t |-> "IMAP4_SSL"]

\* Account.__init__
Account(oauth2_token, id_params) ==
    [t |-> "Account", connected |-> FALSE, boxes |-> None,
     oauth2_token |-> oauth2_token, id_params |-> id_params,
     last_viewed_mailbox |-> None]

\* mailbox.Mailbox(self, box)
Mailbox(box) == [t |-> "Mailbox", box |-> box]

\* self.boxes as _on_mailboxes builds it from the data of the response
Mailboxes(data) == List([k \in 1..Len(data) |-> Mailbox(data[k])])

\* a command sent on the connection, with the response it got
Command(cmd, resp) == [cmd |-> cmd, typ |-> resp.typ, data |-> resp.data]

\* what an operation leaves: the account, the commands sent, the outcome
Left(a, cmds, out) == [account |-> a, commands |-> cmds, out |-> out]

TypeError == [exc |-> "TypeError", msg |-> "", val |-> None]
AttributeError == [exc |-> "AttributeError", msg |-> "", val |-> None]

\* a response for which the response checks hand an error to the caller
check_for_response_error(resp) == resp.typ = "error"

is_auth_error(v) == v.t = "AuthError"
is_imap_error(v) == v.t = "IMAPError"

\* Account.id, entered from _on_authentication with connected set, so that
\* its own call of connection hands back the connection and sends nothing:
\* the ID command is sent and _on_id hands back the connection
id(a, cmds, r) ==
    LET sent == Append(cmds, Command("ID", r.id))
    IN  IF check_for_response_error(r.id) THEN Left(a, sent, Return(IMAPError))
        ELSE Left(a, sent, Return(Conn))

\* _on_ids of Account.connection: what id left, and no value returned
on_ids(l) == Left(l.account, l.commands, Return(None))

\* connection that authenticates on every call
connection_every_time(a, cmds, r) ==
    LET sent  == Append(cmds, Command(IF a.oauth2_token THEN "AUTHENTICATE"
                                      ELSE "LOGIN", r.auth))
    IN  IF check_for_response_error(r.auth) THEN Left(a, sent, Return(AuthError))
        ELSE IF a.id_params
             THEN on_ids(id([a EXCEPT !.connected = TRUE], sent, r))
        ELSE Left([a EXCEPT !.connected = TRUE], sent, Return(Conn))

\* Account.connection; r holds the responses the server gives
connection(a, cmds, r) ==
    IF a.connected THEN Left(a, cmds, Return(Conn))
    ELSE LET sent == Append(cmds, Command(IF a.oauth2_token THEN "AUTHENTICATE"
                                          ELSE "LOGIN", r.auth))
         IN  IF check_for_response_error(r.auth)
             THEN Left(a, sent, Return(AuthError))
             ELSE IF a.id_params
                  THEN on_ids(id([a EXCEPT !.connected = TRUE], sent, r))
             ELSE Left([a EXCEPT !.connected = TRUE], sent, Return(Conn))

\* mailboxes that asks the server on every call
mailboxes_every_time(a, cmds, r) ==
    LET c == connection(a, cmds, r)
    IN  IF c.out.val = None THEN Left(c.account, c.commands, AttributeError)
        ELSE IF is_auth_error(c.out.val) \/ is_imap_error(c.out.val) THEN c
        ELSE LET sent == Append(c.commands, Command("LIST", r.list))
             IN  IF check_for_response_error(r.list)
                 THEN Left(c.account, sent, Return(IMAPError))
                 ELSE Left([c.account EXCEPT !.boxes = Mailboxes(r.list.data)],
                           sent, Return(Mailboxes(r.list.data)))

\* Account.mailboxes
mailboxes(a, cmds, r) ==
    IF a.boxes # None THEN Left(a, cmds, Return(a.boxes))
    ELSE
    LET c == connection(a, cmds, r)
    IN  IF c.out.val = None THEN Left(c.account, c.commands, AttributeError)
        ELSE IF is_auth_error(c.out.val) \/ is_imap_error(c.out.val) THEN c
        ELSE LET sent == Append(c.commands, Command("LIST", r.list))
             IN  IF check_for_response_error(r.list)
                 THEN Left(c.account, sent, Return(IMAPError))
                 ELSE Left([c.account EXCEPT !.boxes = Mailboxes(r.list.data)],
                           sent, Return(Mailboxes(r.list.data)))

\* Account.add_mailbox
add_mailbox(a, cmds, r) ==
    LET c == connection(a, cmds, r)
    IN  IF c.out.val = None THEN Left(c.account, c.commands, AttributeError)
        ELSE IF is_auth_error(c.out.val) THEN c
        ELSE LET sent == Append(c.commands, Command("CREATE", r.create))
             IN  IF check_for_response_error(r.create)
                 THEN Left(c.account, sent, Return(IMAPError))
                 ELSE IF r.create.typ = "NO"
                      THEN Left(c.account, sent, Return(Bool(FALSE)))
                 ELSE Left([c.account EXCEPT !.boxes = None], sent,
                           Return(Bool(r.create.data[1] = "Success")))

\* Account.clear_mailbox_cache: len(None) raises TypeError
clear_mailbox_cache(a, cmds) ==
    IF a.boxes = None THEN Left(a, cmds, TypeError)
    ELSE Left([a EXCEPT !.boxes = None], cmds,
              Return(IntVal(Len(a.boxes.items))))

\* Account.close
close(a, cmds, r) ==
    LET closed == IF a.last_viewed_mailbox # None
                  THEN Append(cmds, Command("CLOSE", r.close)) ELSE cmds
    IN  IF a.last_viewed_mailbox # None /\ check_for_response_error(r.close)
        THEN Left(a, closed, Return(IMAPError))
        ELSE LET sent == Append(closed, Command("LOGOUT", r.logout))
             IN  IF check_for_response_error(r.logout)
                 THEN Left(a, sent, Return(IMAPError))
                 ELSE Left([a EXCEPT !.connected = FALSE], sent,
                           Return(Bool(r.logout.typ = "BYE")))

\* responses of the server
Response(typ, data) == [typ |-> typ, data |-> data]
Failed == Response("error", <<>>)
AuthResponses == {Response("OK", <<>>), Failed}
BoxNames == {"INBOX", "Trash"}
ListResponses ==
    {Response("OK", d) : d \in UNION {[1..n -> BoxNames] : n \in 0..MaxBoxes}}
    \cup {Failed}
CreateResponses ==
    {Response("OK", <<"Success">>), Response("OK", <<"Exists">>),
     Response("NO", <<>>), Failed}
LogoutResponses == {Response("BYE", <<>>), Failed}

\* the responses that the commands of each call may get
ConnectionResponses == [auth : AuthResponses, id : AuthResponses]
MailboxesResponses ==
    [auth : AuthResponses, id : AuthResponses, list : ListResponses]
AddMailboxResponses ==
    [auth : AuthResponses, id : AuthResponses, create : CreateResponses]
CloseResponses == [close : AuthResponses, logout : LogoutResponses]

InitAccount ==
    /\ \E o, i \in BOOLEAN : value = Account(o, i)
    /\ other = [t |-> "IMAP4_SSL", commands |-> <<>>]
    /\ index = 0
    /\ result = NoResult /\ pc = "input" /\ string = <<>>

\* a call returns: l is what it leaves
Returned(l, name) ==
    /\ value' = l.account
    /\ other' = [other EXCEPT !.commands = l.commands]
    /\ result' = l.out
    /\ pc' = name
    /\ index' = index + 1
    /\ UNCHANGED string

CallConnection ==
    /\ index < MaxCalls
    /\ \E r \in ConnectionResponses : Returned(connection(value, other.commands, r), "connection")

CallMailboxes ==
    /\ index < MaxCalls
    /\ \E r \in MailboxesResponses : Returned(mailboxes(value, other.commands, r), "mailboxes")

CallAddMailbox ==
    /\ index < MaxCalls
    /\ \E r \in AddMailboxResponses : Returned(add_mailbox(value, other.commands, r), "add_mailbox")

CallClearMailboxCache ==
    /\ index < MaxCalls
    /\ Returned(clear_mailbox_cache(value, other.commands), "clear_mailbox_cache")

CallClose ==
    /\ index < MaxCalls
    /\ \E r \in CloseResponses : Returned(close(value, other.commands, r), "close")

NextAccount ==
    \/ CallConnection \/ CallMailboxes \/ CallAddMailbox
    \/ CallClearMailboxCache \/ CallClose
SpecAccount == InitAccount /\ [][NextAccount]_vars

AuthCommands == {"AUTHENTICATE", "LOGIN"}

\* C28 as stated: once an authentication has succeeded, no later call
\* sends a further authenticate or login command: no such command stands
\* in the commands sent after one that was answered OK.
AuthenticatesOnce ==
    \A j, k \in 1..Len(other.commands) :
        (/\ j < k
         /\ other.commands[j].cmd \in AuthCommands
         /\ other.commands[j].typ = "OK")
        => other.commands[k].cmd \notin AuthCommands

\* C28: while connected is set, that is from a successful authentication
\* until close logs out, every call of connection hands back the
\* existing connection and sends no command.
ConnectionIsKept ==
    [][(pc' = "connection" /\ value.connected) =>
          /\ result' = Return(Conn)
          /\ other' = other
          /\ value' = value]_vars

\* the second call on the account was connection, it handed back the
\* connection, and the login of the first call is the only command sent
ConnectionIsKeptWitness ==
    /\ pc = "connection"
    /\ index = 2
    /\ value.connected
    /\ result = Return(Conn)
    /\ Len(other.commands) = 1
    /\ other.commands[1].cmd = "LOGIN"

ClearReturnsCount ==
    [][pc' = "clear_mailbox_cache" =>
          /\ result' = Return(IntVal(IF value.boxes = None THEN 0
                                     ELSE Len(value.boxes.items)))
          /\ value'.boxes = None]_vars

(***************************************************************************)
(* A reader called on its production, with input before and after it       *)
(***************************************************************************)
qux == <<"q", "u", "x">>

\* sequences of at most n elements of S, laid end to end
RECURSIVE Laid(_, _)
Laid(S, n) ==
    IF n = 0 THEN {<<>>}
    ELSE Laid(S, n - 1) \cup {a \o b : a \in Laid(S, n - 1), b \in S}

\* the characters of a quoted string's content, as they are written
QuotedUnits == {<<"a">>, <<" ">>, <<")">>, <<"\\", "\"">>}
QuotedProductions == {<<"\"">> \o c \o <<"\"">> : c \in Laid(QuotedUnits, MaxUnits)}

LiteralUnits == {<<"a">>, <<"\"">>, <<")">>, <<" ">>}
LiteralProductions == {LiteralInput(c) : c \in Laid(LiteralUnits, MaxUnits)}

ListUnits ==
    {<<"a">>, <<"(", ")">>, <<"(", "a", ")">>, <<"\"", ")", "\"">>,
     LiteralInput(<<")">>)}
ListProductions ==
    {<<"(">> \o JoinSpace(toks) \o <<")">> :
        toks \in UNION {[1..n -> ListUnits] : n \in 0..MaxUnits}}

Productions == QuotedProductions \cup LiteralProductions \cup ListProductions
Befores == {<<>>, <<"a", " ">>}
Afters ==
    {<<>>, <<" ", "\"">> \o foo \o <<"\"">>, <<" ">> \o qux, <<")">>, <<"a">>}

\* value holds the parts of the input: what stands before the production,
\* the production, what follows it
InitProduction ==
    /\ \E b \in Befores, p \in Productions, f \in Afters :
          /\ value = List(<<Str(b), Str(p), Str(f)>>)
          /\ string = b \o p \o f
          /\ index = Len(b)
    /\ result = NoResult /\ pc = "input" /\ other = None

\* the dispatcher has seen the first character of a production at the
\* cursor and calls the reader of that production
Read(c, r, name) ==
    /\ pc = "input"
    /\ ahead(string, index) = c
    /\ result' = Outcome(r)
    /\ index' = r.index
    /\ pc' = name
    /\ UNCHANGED <<string, value, other>>

ReadQuoted == Read("\"", read_quoted(string, index), "read_quoted")
ReadLiteral == Read("{", read_literal(string, index), "read_literal")
ReadList == Read("(", read_list(string, index), "read_list")

NextProduction == ReadQuoted \/ ReadLiteral \/ ReadList
SpecProduction == InitProduction /\ [][NextProduction]_vars

\* C34: read_quoted, read_literal and read_list return with the cursor
\* index immediately after their production (the closing double quote, the
\* last declared character of the literal, the matching parenthesis), so
\* that what follows the production is left unread.
ReadersConsumeTheirProduction ==
    pc \in {"read_quoted", "read_literal", "read_list"} =>
        /\ result.exc = "none"
        /\ index = Len(value.items[1].v) + Len(value.items[2].v)
        /\ PySlice(string, index, Len(string)) = value.items[3].v

\* read_list has returned before ' qux' from a list that holds a
\* parenthesis inside a quoted string and a nested list
ListLeavesRest ==
    /\ pc = "read_list"
    /\ string = <<"(", "\"", ")", "\"", " ", "(", "a", ")", ")", " ">> \o qux
    /\ index = 9
    /\ result.val = List(<<Str(<<")">>), List(<<Atom(<<"a">>)>>)>>)

(***************************************************************************)
(* Separating spaces, over the inputs of parentheses, spaces and atoms     *)
(***************************************************************************)
\* a space of s that does not stand between two tokens: at the head of the
\* input or of a list, after another space, before ')' or at the end
StraySpace(s) ==
    \E k \in 1..Len(s) :
        /\ s[k] = " "
        /\ \/ k = 1
           \/ k = Len(s)
           \/ s[k - 1] \in {" ", "("}
           \/ s[k + 1] \in {" ", ")"}

\* C35: sibling tokens are separated by exactly one space, and a space is
\* followed by a token: an input with a leading space, two spaces in a
\* row, or a space before ')' or the end of the input is rejected with a
\* ParseError.
StraySpaceFails ==
    (pc = "parse" /\ StraySpace(string)) => result.exc = "ParseError"

(***************************************************************************)
(* The event loop and the functions that put calls on it                   *)
(*                                                                         *)
(* A call is the function called, its positional arguments and its keyword *)
(* arguments (a set of pairs of a name and a value).  The loop is the      *)
(* sequence of the calls that io_loop().add_callback was handed, oldest    *)
(* first.                                                                  *)
(***************************************************************************)
Dict(items) == [t |-> "dict", items |-> items]

\* `if v:` for None and dicts
Truthy(v) == v # None /\ ~(v.t = "dict" /\ v.items = {})

\* a function by name; callback is the callback of the call of the method
\* that the function was defined in, None for a function of the caller
Function(name, callback) == [t |-> "function", name |-> name, callback |-> callback]

CallOf(f, args, kwargs) == [f |-> f, args |-> args, kwargs |-> kwargs]

\* loop_cb(callback), callback being a lambda that makes the call c
loop_cb(loop, c) == Append(loop, c)

\* loop_cb_args(callback, arg)
loop_cb_args(loop, callback, arg) == loop_cb(loop, CallOf(callback, <<arg>>, {}))

\* the lambda that add_loop_cb(callback) returns
add_loop_cb(callback) ==
    [t |-> "lambda", of |-> "add_loop_cb", callback |-> callback, args |-> {}]

\* the lambda that add_loop_cb_args(callback, args) returns
add_loop_cb_args(callback, args) ==
    [t |-> "lambda", of |-> "add_loop_cb_args", callback |-> callback,
     args |-> args.items]

\* a call of one of the two lambdas with one argument: the loop it leaves
lambda(loop, l, v) ==
    IF l.of = "add_loop_cb" THEN loop_cb_args(loop, l.callback, v)
    ELSE loop_cb(loop, CallOf(l.callback, <<v>>, l.args))

\* imap_cmd with is_async false; res is what func returns: the call of
\* callback that imap_cmd makes
imap_cmd_sync(callback, callback_args, res) ==
    IF Truthy(callback_args) THEN CallOf(callback, <<res, callback_args>>, {})
    ELSE CallOf(callback, <<res>>, {})

\* imap_cmd with is_async true: the function handed to func as callback
imap_cmd_async(callback, callback_args) ==
    IF Truthy(callback_args) THEN add_loop_cb_args(callback, callback_args)
    ELSE add_loop_cb(callback)

(***************************************************************************)
(* imap_cmd called in both modes with the same callback and callback_args, *)
(* on a func with the same result.  value holds the result and the         *)
(* callback_args; other the calls of callback made by the synchronous      *)
(* call, the function that the asynchronous call handed to func, the       *)
(* number of responses func has had and the calls of callback that ran on  *)
(* the loop; string is the loop.                                           *)
(***************************************************************************)
callback == Function("callback", None)

FuncResults == {Response("OK", <<"1">>), Failed}
CallbackArgs ==
    {None, Dict({}), Dict({<<"deleted_uid", Str(<<"7">>)>>}),
     Dict({<<"raw_string", Str(<<"a">>)>>}),
     Dict({<<"deleted_uid", Str(<<"7">>)>>, <<"raw_string", Str(<<"a">>)>>})}

InitImapCmd ==
    /\ \E r \in FuncResults, a \in CallbackArgs :
          value = [res |-> r, callback_args |-> a]
    /\ other = [sync |-> <<>>, handed |-> None, responses |-> 0, ran |-> <<>>]
    /\ string = <<>>
    /\ index = 0 /\ result = NoResult /\ pc = "input"

\* imap_cmd(func, callback, False, callback_args)
ImapCmdSync ==
    /\ other.sync = <<>>
    /\ other' = [other EXCEPT
                   !.sync = <<imap_cmd_sync(callback, value.callback_args, value.res)>>]
    /\ UNCHANGED <<string, index, result, pc, value>>

\* imap_cmd(func, callback, True, callback_args): func is called with the
\* function as its callback keyword and returns before any response
ImapCmdAsync ==
    /\ other.handed = None
    /\ other' = [other EXCEPT
                   !.handed = imap_cmd_async(callback, value.callback_args)]
    /\ UNCHANGED <<string, index, result, pc, value>>

\* a response arrives and func's side calls the function it was handed
ImapCmdResponse ==
    /\ other.handed # None
    /\ other.responses < MaxResponses
    /\ string' = lambda(string, other.handed, value.res)
    /\ other' = [other EXCEPT !.responses = @ + 1]
    /\ UNCHANGED <<index, result, pc, value>>

\* the loop makes its oldest call
ImapCmdLoop ==
    /\ string # <<>>
    /\ string' = Tail(string)
    /\ other' = [other EXCEPT !.ran = Append(@, Head(string))]
    /\ UNCHANGED <<index, result, pc, value>>

NextImapCmd == ImapCmdSync \/ ImapCmdAsync \/ ImapCmdResponse \/ ImapCmdLoop
SpecImapCmd == InitImapCmd /\ [][NextImapCmd]_vars

\* C38: the call of callback that the synchronous mode makes has the
\* positional and keyword arguments of the calls that run on the loop in
\* the asynchronous mode; in the asynchronous mode callback is called by
\* the loop only, once for each response.
ImapCmdModesAgree ==
    /\ \A k \in 1..Len(other.ran) :
          other.sync # <<>> => other.ran[k] = other.sync[1]
    /\ Len(other.ran) + Len(string) = other.responses
    /\ \A k \in 1..Len(other.ran) : other.ran[k].f = callback

(***************************************************************************)
(* Message.__init__: the metadata of a message                             *)
(*                                                                         *)
(* The metadata line message[0] is the sequence of its lexemes: numbers,   *)
(* words, single spaces and parentheses, each a sequence of characters.    *)
(* A pattern is a sequence of elements, each a lexeme to be met or a       *)
(* group: a group of digits meets a number or nothing, a group of any      *)
(* characters meets any lexemes, as many as the rest of the pattern        *)
(* allows.                                                                 *)
(***************************************************************************)
SP == <<" ">>

\* the elements of ws with sep between neighbours
RECURSIVE JoinWith(_, _)
JoinWith(ws, sep) ==
    IF ws = <<>> THEN <<>>
    ELSE IF Len(ws) = 1 THEN <<ws[1]>>
    ELSE <<ws[1], sep>> \o JoinWith(Tail(ws), sep)

Lexeme(text) == [lit |-> text, class |-> ""]
Group(class) == [lit |-> <<>>, class |-> class]

MetadataHead ==
    <<Group("d"), Lexeme(SP), Lexeme(<<"(">>), Lexeme(<<"X", "-", "G", "M", "-", "M", "S", "G", "I", "D">>), Lexeme(SP),
      Group("d"), Lexeme(SP), Lexeme(<<"X", "-", "G", "M", "-", "L", "A", "B", "E", "L", "S">>), Lexeme(SP), Lexeme(<<"(">>),
      Group("any"), Lexeme(<<")">>), Lexeme(SP), Lexeme(<<"U", "I", "D">>), Lexeme(SP),
      Group("d")>>

METADATA_PATTERN ==
    MetadataHead \o <<Lexeme(SP), Lexeme(<<"F", "L", "A", "G", "S">>), Lexeme(SP), Lexeme(<<"(">>),
                      Group("any"), Lexeme(<<")">>), Lexeme(SP)>>

METADATA_PATTERN_NOFLAGS == MetadataHead \o <<Lexeme(SP)>>

IsNumber(lexeme) == lexeme # <<>> /\ \A k \in 1..Len(lexeme) : lexeme[k] \in Digits

\* pattern.match(s) from lexeme i on: <<>> when there is no match, else
\* <<groups>>, groups being what .groups() returns
RECURSIVE re_match(_, _, _), re_group(_, _, _, _)
re_match(pat, s, i) ==
    IF pat = <<>> THEN << <<>> >>
    ELSE IF Head(pat).class = ""
         THEN IF i <= Len(s) /\ s[i] = Head(pat).lit
              THEN re_match(Tail(pat), s, i + 1) ELSE <<>>
    ELSE re_group(pat, s, i,
                  IF Head(pat).class = "any" THEN Len(s) - i + 1
                  ELSE IF i <= Len(s) /\ IsNumber(s[i]) THEN 1 ELSE 0)

\* a group that meets n lexemes, or fewer when the rest finds no match
re_group(pat, s, i, n) ==
    IF n < 0 THEN <<>>
    ELSE LET r == re_match(Tail(pat), s, i + n)
         IN  IF Len(r) = 1 THEN << <<SubSeq(s, i, i + n - 1)>> \o r[1] >>
             ELSE re_group(pat, s, i, n - 1)

\* text.split(), text being the lexemes of a group
split(text) == SelectSeq(text, LAMBDA x : x # SP)

\* word.replace(r'\\\\', r'\\'): four backslashes become two
RECURSIVE replace(_)
replace(word) ==
    IF word = <<>> THEN <<>>
    ELSE IF Len(word) >= 4 /\ SubSeq(word, 1, 4) = <<"\\", "\\", "\\", "\\">>
         THEN <<"\\", "\\">> \o replace(SubSeq(word, 5, Len(word)))
    ELSE <<Head(word)>> \o replace(Tail(word))

\* an attribute that no assignment has created
NoAttribute == [t |-> "no attribute"]

\* self.flags, self.labels after the split and the replace
Words(text) ==
    List([k \in 1..Len(split(text)) |-> Str(replace(split(text)[k]))])

\* the statements of __init__ after the two matches; groups is <<>> when
\* neither pattern matched
Message__init__groups(groups, flags) ==
    IF groups = <<>> THEN AttributeError
    ELSE IF flags = NoAttribute THEN AttributeError  \* self.flags is read
    ELSE Return([t |-> "Message", id |-> Str(groups[1][1]),
                 gmail_id |-> Str(groups[1][2]), labels |-> Words(groups[1][3]),
                 uid |-> Str(groups[1][4]), flags |-> Words(flags.v)])

\* Message.__init__ up to the labels; message0 is message[0]
Message__init__(message0) ==
    LET metadata_rs == re_match(METADATA_PATTERN, message0, 1)
        metadata_short_rs == re_match(METADATA_PATTERN_NOFLAGS, message0, 1)
    IN  IF metadata_rs = <<>>
        THEN Message__init__groups(metadata_short_rs, NoAttribute)
        ELSE Message__init__groups(metadata_rs, Str(metadata_rs[1][5]))

\* metadata lines as the server sends them
LabelWords == {<<"\"", "\\", "\\", "\\", "\\", "I", "n", "b", "o", "x", "\"">>, <<"w", "o", "r", "k">>}
FlagWords == {<<"\\", "S", "e", "e", "n">>, <<"\\", "F", "l", "a", "g", "g", "e", "d">>}
Spaced(S, n) == {JoinWith(ws, SP) : ws \in UNION {[1..k -> S] : k \in 0..n}}
MetadataTails == {<<>>, <<<<"R", "F", "C", "8", "2", "2">>, SP, <<"{">>, <<"9">>, <<"}">> >>}

MetadataLine(num, labels, flags, tail) ==
    <<num, SP, <<"(">>, <<"X", "-", "G", "M", "-", "M", "S", "G", "I", "D">>, SP, <<"2">>, SP, <<"X", "-", "G", "M", "-", "L", "A", "B", "E", "L", "S">>, SP, <<"(">> >> \o labels
    \o << <<")">>, SP, <<"U", "I", "D">>, SP, <<"3">> >> \o flags \o <<SP>> \o tail

\* the FLAGS section of a line
FlagsSection(flags) == <<SP, <<"F", "L", "A", "G", "S">>, SP, <<"(">> >> \o flags \o << <<")">> >>

\* value holds the labels of the line and whether it has a FLAGS section
InitMetadata ==
    /\ \E num \in {<<"1">>, <<"1", "2">>}, labels \in Spaced(LabelWords, MaxWords),
          flags \in {<<>>} \cup {FlagsSection(f) : f \in Spaced(FlagWords, MaxWords)},
          tail \in MetadataTails :
          /\ string = MetadataLine(num, labels, flags, tail)
          /\ value = [labels |-> labels, flags |-> flags # <<>>]
    /\ index = 0 /\ result = NoResult /\ pc = "input" /\ other = None

\* Message(message, mailbox)
Construct ==
    /\ pc = "input"
    /\ result' = Message__init__(string)
    /\ pc' = "Message"
    /\ UNCHANGED <<string, index, value, other>>

NextMetadata == Construct
SpecMetadata == InitMetadata /\ [][NextMetadata]_vars

\* C37: a Message built from a metadata line that has no FLAGS section is
\* constructed, with flags the empty list and labels as they are parsed
\* from a line that has one.
NoFlagsConstructs ==
    (pc = "Message" /\ ~value.flags) =>
        /\ result.exc = "none"
        /\ result.val.flags = List(<<>>)
        /\ result.val.labels = Words(value.labels)

(***************************************************************************)
(* Message.fetch_raw_body, as_string, delete and save, called with a       *)
(* callback on a message of an account that is connected.                  *)
(*                                                                         *)
(* st is what the calls work on: loop, the event loop; commands, the       *)
(* commands sent with the response each has had and the function that      *)
(* waits for it; raised, the exceptions that left a call made by the loop; *)
(* msg, the Message.                                                       *)
(***************************************************************************)
INBOX == "INBOX"
Trash == "[Gmail]/Trash"

\* a command sent with a callback keyword, not yet answered
Sent(cmd, arg, f) ==
    [cmd |-> cmd, arg |-> arg, typ |-> "pending", data |-> <<>>, callback |-> f]

send(st, cmd, arg, f) ==
    [st EXCEPT !.commands = Append(@, Sent(cmd, arg, f))]

raise(st, exc) == [st EXCEPT !.raised = Append(@, exc)]

\* self.mailbox.select(callback=f): SELECT is sent; select_complete is
\* what runs when its response arrives
mailbox_select(st, f) ==
    send(st, "SELECT", INBOX,
         [t |-> "lambda", of |-> "mailbox.select", callback |-> f, args |-> {}])

select_complete(loop, f, resp) ==
    lambda(loop, f, IF check_for_response_error(resp) THEN IMAPError
                    ELSE Bool(TRUE))

\* self.conn(callback=f), the account being connected: Account.connection
\* hands self.conn to f
conn(st, f) == [st EXCEPT !.loop = lambda(@, f, Conn)]

\* Message._callback_if_error: [error, st]
callback_if_error(st, imap_response, cb) ==
    IF check_for_response_error(imap_response)
    THEN [error |-> TRUE, st |-> [st EXCEPT !.loop = loop_cb_args(@, cb, IMAPError)]]
    ELSE [error |-> FALSE, st |-> st]

\* a body of a function that handles a response: nothing more on an
\* error, else the statements that lead to then
unless_error(st, imap_response, cb, then) ==
    IF callback_if_error(st, imap_response, cb).error
    THEN callback_if_error(st, imap_response, cb).st
    ELSE then

\* data[0].split()[-1] of a SEARCH response as the argument of then, or
\* the IndexError of an empty data[0]
last_uid(st, imap_response, then) ==
    IF imap_response.data = <<>> THEN raise(st, "IndexError")
    ELSE then

LastOf(data) == Str(<<data[Len(data)]>>)

Keyword(kwargs, name) == (CHOOSE p \in kwargs : p[1] = name)[2]

\* fetch_raw_body that asks the server whatever the message holds
fetch_raw_body_always(st, cb) ==
    mailbox_select(st, add_loop_cb(Function("fetch_raw_body._on_select", cb)))

\* Message.fetch_raw_body
fetch_raw_body(st, cb) ==
    IF st.msg.raw # None THEN [st EXCEPT !.loop = loop_cb_args(@, cb, st.msg.raw)]
    ELSE mailbox_select(st, add_loop_cb(Function("fetch_raw_body._on_select", cb)))

\* Message.as_string
as_string(st, cb) ==
    fetch_raw_body(st, add_loop_cb(Function("as_string._on_fetch_raw_body", cb)))

\* Message.delete
delete(st, cb) ==
    mailbox_select(st, add_loop_cb(Function("delete._on_mailbox_select", cb)))

\* Message.save
save(st, cb) == as_string(st, add_loop_cb(Function("save._on_as_string", cb)))

\* the functions defined inside the four methods: f is called with the
\* positional argument v and the keyword arguments kwargs
call(st, f, v, kwargs) ==
    LET cb    == f.callback
        F(n)  == add_loop_cb(Function(n, cb))
        K(n)  == [t |-> "lambda", of |-> "add_loop_cb_args",
                  callback |-> Function(n, cb), args |-> kwargs]
    IN  CASE f.name = "fetch_raw_body._on_select" ->
               conn(st, F("fetch_raw_body._on_connection"))
          [] f.name = "fetch_raw_body._on_connection" ->
               send(st, "UID FETCH", "(RFC822)", F("fetch_raw_body._on_fetch"))
          [] f.name = "fetch_raw_body._on_fetch" ->
               unless_error(st, v, cb,
                   [st EXCEPT !.msg.raw = Str(v.data),
                              !.loop = loop_cb_args(@, cb, Str(v.data))])
          [] f.name = "as_string._on_fetch_raw_body" ->
               IF v.t = "IMAPError" THEN raise(st, "AttributeError")
               ELSE [st EXCEPT !.loop = loop_cb_args(@, cb, v)]
          [] f.name = "delete._on_mailbox_select" ->
               conn(st, F("delete._on_received_connection"))
          [] f.name = "delete._on_received_connection" ->
               send(st, "UID COPY", Trash, F("delete._on_message_moved"))
          [] f.name = "delete._on_message_moved" ->
               unless_error(st, v, cb, conn(st, F("delete._on_received_connection_2")))
          [] f.name = "delete._on_received_connection_2" ->
               send(st, "SELECT", Trash, F("delete._on_trash_selected"))
          [] f.name = "delete._on_trash_selected" ->
               unless_error(st, v, cb, conn(st, F("delete._on_received_connection_3")))
          [] f.name = "delete._on_received_connection_3" ->
               send(st, "UID SEARCH", "Message-ID",
                    F("delete._on_search_for_message_complete"))
          [] f.name = "delete._on_search_for_message_complete" ->
               unless_error(st, v, cb,
                   last_uid(st, v,
                       conn(st, add_loop_cb_args(
                                    Function("delete._on_received_connection_4", cb),
                                    Dict({<<"deleted_uid", LastOf(v.data)>>})))))
          [] f.name = "delete._on_received_connection_4" ->
               send(st, "UID STORE", Keyword(kwargs, "deleted_uid").v[1],
                    F("delete._on_delete_complete"))
          [] f.name = "delete._on_delete_complete" ->
               unless_error(st, v, cb, conn(st, F("delete._on_recevieved_connection_5")))
          [] f.name = "delete._on_recevieved_connection_5" ->
               send(st, "EXPUNGE", "", F("delete._on_expunge_complete"))
          [] f.name = "delete._on_expunge_complete" ->
               unless_error(st, v, cb, conn(st, F("delete._on_recevieved_connection_6")))
          [] f.name = "delete._on_recevieved_connection_6" ->
               send(st, "SELECT", INBOX, F("delete._on_original_mailbox_reselected"))
          [] f.name = "delete._on_original_mailbox_reselected" ->
               unless_error(st, v, cb,
                   [st EXCEPT !.loop = loop_cb_args(@, cb, Bool(TRUE))])
          [] f.name = "save._on_as_string" ->
               delete(st, add_loop_cb_args(Function("save._on_delete", cb),
                                           Dict({<<"raw_string", v>>})))
          [] f.name = "save._on_delete" ->
               mailbox_select(st, K("save._on_select"))
          [] f.name = "save._on_select" ->
               conn(st, K("save._on_received_connection"))
          [] f.name = "save._on_received_connection" ->
               send(st, "APPEND", INBOX, F("save._on_append"))
          [] f.name = "save._on_append" ->
               unless_error(st, v, cb, conn(st, F("save._on_post_append_select")))
          [] f.name = "save._on_post_append_select" ->
               send(st, "UID SEARCH", "Message-ID", F("save._on_message_id_search"))
          [] f.name = "save._on_message_id_search" ->
               unless_error(st, v, cb,
                   last_uid(st, v,
                       conn([st EXCEPT !.msg.uid = LastOf(v.data)],
                            F("save._on_post_search_select"))))
          [] f.name = "save._on_post_search_select" ->
               send(st, "UID STORE", "+X-GM-LABELS", F("save._on_post_labeling"))
          [] f.name = "save._on_post_labeling" ->
               unless_error(st, v, cb,
                   [st EXCEPT !.loop = loop_cb_args(@, cb, Bool(TRUE))])

\* responses of the server to a command
Uids == {"4", "7"}
SearchResponses ==
    {Response("OK", d) : d \in UNION {[1..n -> Uids] : n \in 0..MaxUids}}
    \cup {Failed}
ResponsesTo(cmd) ==
    IF cmd = "UID SEARCH" THEN SearchResponses
    ELSE IF cmd = "UID FETCH" THEN {Response("OK", <<"b">>), Failed}
    ELSE {Response("OK", <<>>), Failed}

\* string is the loop, other holds the commands and the exceptions, value
\* the Message, result the calls of the caller's callback that the loop
\* has made, index the number of calls the loop has made
St == [loop |-> string, commands |-> other.commands, raised |-> other.raised,
       msg |-> value]

Becomes(st) ==
    /\ string' = st.loop
    /\ other' = [commands |-> st.commands, raised |-> st.raised]
    /\ value' = st.msg

InitMessage ==
    /\ \E raw \in {None, Str(<<"b">>)} :
          value = [t |-> "Message", raw |-> raw, uid |-> Str(<<"3">>)]
    /\ string = <<>>
    /\ other = [commands |-> <<>>, raised |-> <<>>]
    /\ result = <<>> /\ index = 0 /\ pc = "input"

CallFetchRawBody ==
    /\ pc = "input"
    /\ Becomes(fetch_raw_body(St, callback))
    /\ pc' = "fetch_raw_body"
    /\ UNCHANGED <<result, index>>

CallDelete ==
    /\ pc = "input"
    /\ Becomes(delete(St, callback))
    /\ pc' = "delete"
    /\ UNCHANGED <<result, index>>

CallSave ==
    /\ pc = "input"
    /\ Becomes(save(St, callback))
    /\ pc' = "save"
    /\ UNCHANGED <<result, index>>

\* the command that waits for its response is answered, and the function
\* sent with it is called with the response
MessageResponse ==
    /\ other.commands # <<>>
    /\ LET n == Len(other.commands)
           c == other.commands[n]
       IN  /\ c.typ = "pending"
           /\ \E r \in ResponsesTo(c.cmd) :
                 /\ other' = [other EXCEPT !.commands[n].typ = r.typ,
                                           !.commands[n].data = r.data]
                 /\ string' = IF c.callback.of = "mailbox.select"
                               THEN select_complete(string, c.callback.callback, r)
                               ELSE lambda(string, c.callback, r)
    /\ UNCHANGED <<index, result, pc, value>>

\* the loop makes its oldest call
MessageLoop ==
    /\ string # <<>>
    /\ LET c == Head(string)
       IN  IF c.f.t = "lambda"
           THEN /\ string' = lambda(Tail(string), c.f, c.args[1])
                /\ UNCHANGED <<result, value, other>>
           ELSE IF c.f = callback
           THEN /\ string' = Tail(string)
                /\ result' = Append(result, c)
                /\ UNCHANGED <<value, other>>
           ELSE /\ Becomes(call([St EXCEPT !.loop = Tail(string)], c.f,
                                c.args[1], c.kwargs))
                /\ UNCHANGED result
    /\ index' = index + 1
    /\ UNCHANGED pc

NextMessage ==
    \/ CallFetchRawBody \/ CallDelete \/ CallSave
    \/ MessageResponse \/ MessageLoop
SpecMessage == InitMessage /\ [][NextMessage]_vars

\* the calls of the caller's callback: those made, then those on the loop
CallbackCalls == result \o SelectSeq(string, LAMBDA c : c.f = callback)

\* nothing waits: no call on the loop, no command without its response
Quiet ==
    /\ string = <<>>
    /\ \A k \in 1..Len(other.commands) : other.commands[k].typ # "pending"

Step(cmd, arg) == [cmd |-> cmd, arg |-> arg]
StepOf(c) == Step(c.cmd, c.arg)
Errors == {k \in 1..Len(other.commands) : other.commands[k].typ = "error"}

\* the commands of the delete that save makes: they follow the SELECT and
\* UID FETCH of a message whose raw body had to be fetched
DeleteErrors ==
    LET first == IF Len(other.commands) >= 2 /\ other.commands[2].cmd = "UID FETCH"
                 THEN 3 ELSE 1
    IN  {k \in Errors : first <= k /\ k < first + 7}

\* the steps of delete, the uid being the one that SEARCH found
DeleteSteps(uid) ==
    <<Step("SELECT", INBOX), Step("UID COPY", Trash), Step("SELECT", Trash),
      Step("UID SEARCH", "Message-ID"), Step("UID STORE", uid),
      Step("EXPUNGE", ""), Step("SELECT", INBOX)>>

\* C31: delete sends SELECT of the mailbox, UID COPY to the trash, SELECT
\* of the trash, UID SEARCH, UID STORE on the uid found, EXPUNGE and SELECT
\* of the mailbox, in this order, each after the response to the one
\* before arrived without error; on the first error response the callback
\* gets that error, once, and no further step is sent; when all steps
\* succeed the callback gets True, once.
DeleteStepByStep ==
    pc = "delete" =>
        /\ Len(other.commands) <= 7
        /\ \A k \in 1..Len(other.commands) :
              /\ \E uid \in Uids : StepOf(other.commands[k]) = DeleteSteps(uid)[k]
              /\ k > 1 => other.commands[k - 1].typ = "OK"
        /\ Len(CallbackCalls) <= 1
        /\ Errors # {} =>
              \A c \in {CallbackCalls[k] : k \in 1..Len(CallbackCalls)} :
                  c.args = <<IMAPError>>
        /\ Errors = {} =>
              \A c \in {CallbackCalls[k] : k \in 1..Len(CallbackCalls)} :
                  c.args = <<Bool(TRUE)>> /\ Len(other.commands) = 7
        /\ Quiet => Len(result) = 1

\* C32: save hands True to its callback only if every step succeeded, the
\* delete of the old copy among them; once a step of the delete has had an
\* error response, save sends no APPEND and hands an error to its callback.
SaveStopsWhenDeleteFails ==
    pc = "save" =>
        /\ \A k \in 1..Len(result) :
              result[k].args = <<Bool(TRUE)>> => Errors = {}
        /\ \A j \in DeleteErrors, k \in 1..Len(other.commands) :
              j < k => other.commands[k].cmd # "APPEND"
        /\ (Quiet /\ DeleteErrors # {}) =>
              (result # <<>> /\ result[1].args = <<IMAPError>>)

\* the commands of fetch_raw_body and the calls of the callback they lead
\* to; quiet tells that nothing waits
FetchRawBodySteps(cmds, calls, quiet) ==
    /\ Len(cmds) <= 2
    /\ \A k \in 1..Len(cmds) :
          StepOf(cmds[k]) = <<Step("SELECT", INBOX), Step("UID FETCH", "(RFC822)")>>[k]
    /\ Len(calls) <= 1
    /\ calls # <<>> =>
          /\ Len(cmds) = 2
          /\ cmds[2].typ # "pending"
          /\ calls[1] = CallOf(callback, <<IF cmds[2].typ = "error" THEN IMAPError
                                           ELSE Str(cmds[2].data)>>, {})
    /\ (quiet /\ Len(cmds) = 2) => Len(calls) = 1

====
